---- MODULE Spec2Model ----
(***************************************************************************)
(* Model of the Maximo AI agent (app/server.mjs): the chat turn handler    *)
(* POST /api/agent/chat, the settings overlay it reads, the provider       *)
(* resolver, the tool schema normalizer and the two external parties it    *)
(* talks to (LLM provider, tool broker).                                   *)
(*                                                                         *)
(* Strings that the code trims or strips are sequences of chunks, where a  *)
(* blank and a slash are chunks of their own.  An HTTP body is a record    *)
(* [val, len]: the JSON value it decodes to (NotJson when JSON.parse       *)
(* throws) and its length in characters.  Model name and temperature of a  *)
(* completion request are passed through by the code untouched and are     *)
(* left out of the request records.                                        *)
(*                                                                         *)
(* Further specifications over the same variables model the settings       *)
(* endpoints, the Maximo helpers and the MCP broker of the same file, and   *)
(* the agent and the broker running side by side.                          *)
(*                                                                         *)
(* Record constructors and sets of strings are written in the order TLC    *)
(* keeps them in (the order in which the names first occur in the module), *)
(* so that no shared constant is re-sorted while several workers read it.  *)
(***************************************************************************)
EXTENDS Integers, Sequences, FiniteSets, TLC

(* ------------------------------ bounds -------------------------------- *)
\* longest tool_calls array a provider response carries
MaxToolCalls == 2
\* longest catalog the normalizer is given
MaxCatalog == 2
\* how often a conversion is applied to its own result
MaxApplications == 2
\* longest ordering string, in chunks
MaxOrderByLen == 3
\* longest backend base URL, in chunks
MaxBaseLen == 4

(* ------------------------- program constants -------------------------- *)
\* r.text.slice(0,300) in openaiCompatChat
ExcerptCap == 300
MCP_URL_BUILTIN == <<"http://mcp-server:8081">>

(* --------------------------- string helpers --------------------------- *)
Min(a, b) == IF a < b THEN a ELSE b

RECURSIVE TrimLeft(_)
TrimLeft(s) == IF s # <<>> /\ Head(s) = " " THEN TrimLeft(Tail(s)) ELSE s

RECURSIVE TrimRight(_)
TrimRight(s) ==
  IF s # <<>> /\ s[Len(s)] = " " THEN TrimRight(SubSeq(s, 1, Len(s) - 1)) ELSE s

\* mutant: the text is taken as it is
Trim_NoOp(s) == s

\* String.prototype.trim
Trim(s) == TrimRight(TrimLeft(s))

\* .replace(/\/$/,"") : drops one trailing slash
StripSlash(s) ==
  IF s # <<>> /\ s[Len(s)] = "/" THEN SubSeq(s, 1, Len(s) - 1) ELSE s

\* String.prototype.toLowerCase on the names that occur
ToLowerCase(w) ==
  CASE w = "OpenAI" -> "openai"
    [] w = "TRUE"   -> "true"
    [] w = "ASC"    -> "asc"
    [] w = "DESC"   -> "desc"
    [] w = "Desc"   -> "desc"
    [] OTHER        -> w

(* ----------------------------- JSON values ---------------------------- *)
NotJson == [t |-> "notjson"]
JsonNull == [t |-> "null"]

\* JSON.parse of a body: the value, or NotJson when it throws
JSONparse(txt) == txt.val

\* JSON.stringify: the compact serialization of a value
JSONstringify(v) == [ser |-> v]

\* JavaScript truthiness of what fetchJson leaves in .json
Truthy(j) == j # NotJson /\ j # JsonNull

\* String.prototype.slice(0, n): the first Min(n, length) characters
Slice(txt, n) == [src |-> txt, len |-> Min(txt.len, n)]

\* fetchJson: an HTTP response with its text and its decoded body
\* (json is null both when the body is not JSON and when it is the literal null)
fetchJson(r) ==
  [ok |-> r.ok, status |-> r.status, text |-> r.text,
   json |-> IF JSONparse(r.text) = NotJson THEN JsonNull ELSE JSONparse(r.text)]

(* ------------------------------ settings ------------------------------ *)
\* process.env of the agent: "" and <<>> stand for an unset variable
EnvCases ==
  { [OPENAI_API_KEY |-> "", MISTRAL_API_KEY |-> "", DEEPSEEK_API_KEY |-> "",
     OPENAI_BASE |-> <<>>, MCP_URL |-> <<>>, MCP_ENABLE_TOOLS |-> "",
     DEFAULT_TENANT |-> ""],
    [OPENAI_API_KEY |-> "sk-env", MISTRAL_API_KEY |-> "", DEEPSEEK_API_KEY |-> "",
     OPENAI_BASE |-> <<"https://proxy.example", "/">>, MCP_URL |-> <<>>,
     MCP_ENABLE_TOOLS |-> "TRUE", DEFAULT_TENANT |-> "plant1"],
    [OPENAI_API_KEY |-> "", MISTRAL_API_KEY |-> "mk-env", DEEPSEEK_API_KEY |-> "",
     OPENAI_BASE |-> <<>>, MCP_URL |-> <<"http://broker:9000", "/">>,
     MCP_ENABLE_TOOLS |-> "false", DEFAULT_TENANT |-> ""] }

\* contents of SETTINGS_FILE; an absent field is "", <<>> or FALSE
StoreCases ==
  { \* the file ensureSettingsFile writes
    [ai |-> [openai_key |-> "", mistral_key |-> "", deepseek_key |-> ""],
     mcp |-> [url |-> MCP_URL_BUILTIN, enableTools |-> FALSE],
     maximo |-> [defaultTenant |-> ""]],
    [ai |-> [openai_key |-> "sk-file", mistral_key |-> "", deepseek_key |-> "dk-file"],
     mcp |-> [url |-> <<"http://broker:8081", "/">>, enableTools |-> TRUE],
     maximo |-> [defaultTenant |-> "north"]],
    \* a blank broker URL saved from the UI
    [ai |-> [openai_key |-> "", mistral_key |-> "mk-file", deepseek_key |-> ""],
     mcp |-> [url |-> <<" ">>, enableTools |-> TRUE],
     maximo |-> [defaultTenant |-> ""]],
    \* no mcp section at all
    [ai |-> [openai_key |-> "", mistral_key |-> "", deepseek_key |-> "dk-file"],
     mcp |-> [url |-> <<>>, enableTools |-> FALSE],
     maximo |-> [defaultTenant |-> ""]] }

\* const MCP_URL_DEFAULT = process.env.MCP_URL || "http://mcp-server:8081"
MCP_URL_DEFAULT(e) == IF e.MCP_URL # <<>> THEN e.MCP_URL ELSE MCP_URL_BUILTIN

\* applyEnvOverrides: a set environment variable replaces the stored field
\* (the stored file carries no provider base URL; only OPENAI_BASE sets one)
applyEnvOverrides(s, e) ==
  [ai |-> [openai_key   |-> IF e.OPENAI_API_KEY # "" THEN e.OPENAI_API_KEY
                            ELSE s.ai.openai_key,
           mistral_key  |-> IF e.MISTRAL_API_KEY # "" THEN e.MISTRAL_API_KEY
                            ELSE s.ai.mistral_key,
           deepseek_key |-> IF e.DEEPSEEK_API_KEY # "" THEN e.DEEPSEEK_API_KEY
                            ELSE s.ai.deepseek_key,
           openai_base  |-> e.OPENAI_BASE],
   mcp |-> [url |-> IF e.MCP_URL # <<>> THEN e.MCP_URL ELSE s.mcp.url,
            enableTools |-> IF e.MCP_ENABLE_TOOLS # ""
                            THEN ToLowerCase(e.MCP_ENABLE_TOOLS) = "true"
                            ELSE s.mcp.enableTools],
   maximo |-> [defaultTenant |-> IF e.DEFAULT_TENANT # "" THEN e.DEFAULT_TENANT
                                 ELSE s.maximo.defaultTenant]]

\* effectiveSettings: the stored file read now, overlaid with the environment
effectiveSettings(s, e) == applyEnvOverrides(s, e)

(* -------------------------- provider resolver ------------------------- *)
baseDefaults(p) ==
  CASE p = "openai"   -> <<"https://api.openai.com">>
    [] p = "mistral"  -> <<"https://api.mistral.ai">>
    [] p = "deepseek" -> <<"https://api.deepseek.com">>
    [] OTHER          -> <<>>

\* mutant: an unrecognized provider falls back to the openai settings
providerConfig_Fallback(provider, s) ==
  LET p == ToLowerCase(IF provider # "" THEN provider ELSE "openai")
  IN [provider |-> p,
      key |-> CASE p = "mistral"  -> s.ai.mistral_key
                [] p = "deepseek" -> s.ai.deepseek_key
                [] OTHER          -> s.ai.openai_key,
      base |-> StripSlash(Trim(baseDefaults(IF p \in {"mistral", "deepseek"}
                                            THEN p ELSE "openai")))]

\* providerConfig(provider, s); provider "" is an absent field
providerConfig(provider, s) ==
  LET p    == ToLowerCase(IF provider # "" THEN provider ELSE "openai")
      key  == CASE p = "openai"   -> s.ai.openai_key
                [] p = "mistral"  -> s.ai.mistral_key
                [] p = "deepseek" -> s.ai.deepseek_key
                [] OTHER          -> ""
      base == CASE p = "openai"   -> IF s.ai.openai_base # <<>> THEN s.ai.openai_base
                                     ELSE baseDefaults(p)
                [] p = "mistral"  -> baseDefaults(p)
                [] p = "deepseek" -> baseDefaults(p)
                [] OTHER          -> <<>>
  IN [provider |-> p, key |-> key, base |-> StripSlash(Trim(base))]

(* ----------------------- tool schema normalizer ----------------------- *)
\* A raw tool is a record holding the fields the object has; [nul |-> TRUE]
\* is a null entry.  A schema value is tagged with its JavaScript kind.
Has(obj, f) == f \in DOMAIN obj
OpenSchema == [k |-> "obj", type |-> "object", additionalProperties |-> TRUE]
IsObjectValue(v) == v.k \in {"obj", "array"}
SchemaOr(obj, f) ==
  IF Has(obj, f) /\ IsObjectValue(obj[f]) THEN obj[f] ELSE OpenSchema

\* A name or a description is a string, or the empty array, the simplest
\* value that is truthy and whose String() is empty; a name is kept in chunks.
EmptyArray == <<"[]">>
String(v) == IF v = EmptyArray THEN <<>> ELSE v
DescOr(obj, f) == IF Has(obj, f) /\ obj[f] # "[]" THEN obj[f] ELSE ""

\* one iteration of the loop of toOpenAITools: the tools record t contributes
toOpenAITool(t) ==
  IF ~Has(t, "nul") /\ Has(t, "type") /\ t.type = "function"
     /\ Has(t, "function") /\ Has(t.function, "name") /\ t.function.name # <<>>
  THEN << [type |-> "function",
           function |-> [name |-> String(t.function.name),
                         description |-> DescOr(t.function, "description"),
                         parameters |-> SchemaOr(t.function, "parameters")]] >>
  ELSE LET name == IF ~Has(t, "nul") /\ Has(t, "name") THEN Trim(String(t.name)) ELSE <<>>
       IN IF name = <<>> THEN <<>>
          ELSE << [type |-> "function",
                   function |-> [name |-> name,
                                 description |-> DescOr(t, "description"),
                                 parameters |-> SchemaOr(t, "inputSchema")]] >>

RECURSIVE toOpenAITools(_)
toOpenAITools(rawTools) ==
  IF rawTools = <<>> THEN <<>>
  ELSE toOpenAITool(Head(rawTools)) \o toOpenAITools(Tail(rawTools))

(* --------------------- requests, responses, inputs -------------------- *)
\* a string value that is not trimmed further: its chunks
Str(chunks) == [str |-> chunks]
EmptyStr == Str(<<>>)

\* bodies of POST /api/agent/chat (absent fields are "" or <<>>);
\* "junk" is a body JSON.parse rejects, "null" the JSON literal null
ChatProviders == <<"", "OpenAI", "mistral", "deepseek", "watsonx">>
ChatTexts == << <<>>, <<" ">>, <<" ", "show all assets", " ">> >>
ChatSystems == << <<>>, <<"be brief", " ">> >>

\* the i-th tool call of a provider response; its argument string is one of
\* ArgCases: no arguments field, a JSON object, a string that is not JSON
ArgCases ==
  << [absent |-> TRUE],
     [val |-> [t |-> "obj", os |-> "mxapiasset"], len |-> 19],
     [val |-> NotJson, len |-> 7] >>
ToolNames == <<"maximo.listOS", "maximo.queryOS", "maximo.deleteOS", "maximo.listOS">>
ToolCall(i, a) ==
  [function |-> IF Has(a, "absent") THEN [name |-> <<ToolNames[i]>>]
                ELSE [name |-> <<ToolNames[i]>>, arguments |-> a],
   id |-> i]
ToolCalls(f) == [i \in DOMAIN f |-> ToolCall(i, ArgCases[f[i]])]
ArgChoices == UNION { [1..n -> DOMAIN ArgCases] : n \in 1..MaxToolCalls }

\* what the provider can answer to a completion request
Response(ok, status, val, len) ==
  [ok |-> ok, status |-> status, text |-> [val |-> val, len |-> len]]
Completion(m) == [t |-> "obj", choices |-> <<[message |-> m]>>]
PlainResponses ==
  << Response(FALSE, 500, NotJson, ExcerptCap + 1),
     Response(FALSE, 401, [t |-> "obj", error |-> "invalid_api_key"], 40),
     Response(TRUE, 200, NotJson, ExcerptCap),
     Response(TRUE, 200, JsonNull, 4),
     Response(TRUE, 200, [t |-> "obj", choices |-> <<>>], 14),
     Response(TRUE, 200,
              Completion([role |-> "assistant", content |-> Str(<<"12 assets">>)]), 90),
     Response(TRUE, 200,
              Completion([role |-> "assistant", content |-> EmptyStr,
                          tool_calls |-> [k |-> "array", items |-> <<>>]]), 80),
     Response(TRUE, 200,
              Completion([role |-> "assistant", tool_calls |-> [k |-> "null"]]), 70) >>
ToolCallResponse(f) ==
  Response(TRUE, 200,
           Completion([role |-> "assistant",
                       tool_calls |-> [k |-> "array", items |-> ToolCalls(f)]]), 200)

\* what the broker can answer to GET /mcp/tools
NativeTool(n) ==
  [name |-> <<n>>, description |-> "d",
   inputSchema |-> [k |-> "obj", type |-> "object", additionalProperties |-> FALSE]]
CanonicalTool(n) ==
  [type |-> "function",
   function |-> [name |-> <<n>>, description |-> "d",
                 parameters |-> [k |-> "obj", type |-> "object",
                                 additionalProperties |-> FALSE]]]
Catalog(items) == [t |-> "obj", tools |-> [k |-> "array", items |-> items]]
CatalogResponses ==
  << Response(TRUE, 200, Catalog(<<CanonicalTool("maximo.listOS"),
                                   CanonicalTool("maximo.queryOS")>>), 400),
     Response(TRUE, 200, Catalog(<<NativeTool("maximo.listOS"), [nul |-> TRUE]>>), 120),
     Response(TRUE, 200, Catalog(<<[description |-> "nameless"]>>), 50),
     Response(TRUE, 200, [t |-> "obj", tools |-> [k |-> "null"]], 14),
     Response(TRUE, 200, [t |-> "obj"], 2),
     Response(TRUE, 200, NotJson, 9),
     Response(FALSE, 500, Catalog(<<NativeTool("maximo.listOS")>>), 100),
     Response(FALSE, 404, NotJson, 9) >>

\* what the broker can answer to POST /mcp/call: the JSON objects its handler
\* writes, or a body that is not JSON from in front of it
InvokeResponses ==
  << Response(TRUE, 200, [t |-> "obj", okField |-> TRUE], 60),
     Response(FALSE, 404, [t |-> "obj", error |-> "unknown_tool"], 45),
     Response(FALSE, 502, NotJson, 11) >>

(* -------------------------------- state ------------------------------- *)
VARIABLES
  env,        \* process.env of the process modelled (agent or broker)
  store,      \* contents of its SETTINGS_FILE
  pc,         \* where the handler of the current turn waits
  parsed,     \* the request body of the turn
  settings,   \* const s = await effectiveSettings() of the turn
  cfg,        \* providerConfig(provider, s)
  mcpUrl,     \* broker URL of the turn
  tenant,     \* tenant id of the turn
  enableTools,\* s.mcp.enableTools as read at the start of the turn
  messages,   \* [system], user
  tools,      \* normalized catalog
  toolCalls,  \* tool_calls of the first completion
  follow,     \* message sequence of the follow-up completion
  idx,        \* number of the tool call being executed
  net,        \* external requests and responses of the turn, in order
  res,        \* the HTTP response of the turn, NoRes until written
  raw,        \* const raw = await loadSettingsRaw() of the turn
  parked,     \* the turns that wait at an await while another one runs
  supplied,   \* the credentials the save payloads so far carried
  sres,       \* the response of the settings endpoint called last
  list,       \* the array toOpenAITools is called with
  normalized, \* what toOpenAITools returned, call after call
  orderBy,    \* the argument of normalizeOrderBy
  ordered,    \* what normalizeOrderBy returned, call after call
  rawBase,    \* the argument of normMaximoBase and maximoApiBase
  bases,      \* what the two returned, call after call
  bpc,        \* where the handler of POST /mcp/call waits
  call,       \* the body of the /mcp/call request
  resolved,   \* const tenant = resolveTenant(settings, tenantId)
  bnet,       \* backend requests and responses of the call, in order
  bres        \* the HTTP response of the broker, NoRes until written

\* the locals of one chat turn
chatVars == <<pc, parsed, settings, cfg, mcpUrl, tenant, enableTools, messages,
              tools, toolCalls, follow, idx, net, res, raw>>
\* the state of the tool schema normalizer, of the Maximo helpers
\* (normalizeOrderBy, normMaximoBase) and of the broker
normVars == <<list, normalized>>
orderVars == <<orderBy, ordered, rawBase, bases>>
brokerVars == <<bpc, call, resolved, bnet, bres>>
\* what no step of a chat turn touches
outside == <<parked, supplied, sres, normVars, orderVars, brokerVars>>

vars == <<env, store, chatVars, outside>>

NoRes == [status |-> 0]
NoCfg == [provider |-> "", key |-> "", base |-> <<>>]
NoParsed == [kind |-> "none"]
NoSettings == [loaded |-> FALSE]

\* json(res, status, obj)
json(status, obj) == [status |-> status, body |-> obj]

\* the catch of the request handler: 500 server_error with the message
server_error(detail) == json(500, [error |-> "server_error", detail |-> detail])

\* a fetch that rejects (no connection, no response, unparsable URL)
FetchFailed == [msg |-> "fetch failed"]

(* --------------------------- openaiCompatChat ------------------------- *)
\* mutant: tools and tool_choice are set on every request
openaiCompatChatRequest_Reoffer(c, msgs, tls) ==
  [base |-> c.base,
   tools |-> tls,
   messages |-> msgs,
   kind |-> "completion",
   ev |-> "req",
   authorization |-> c.key,
   hasTools |-> TRUE,
   tool_choice |-> "auto"]

\* the request openaiCompatChat sends: tools and tool_choice only when a
\* non-empty tool list is passed
openaiCompatChatRequest(c, msgs, tls) ==
  [base |-> c.base,
   tools |-> tls,
   messages |-> msgs,
   kind |-> "completion",
   ev |-> "req",
   authorization |-> c.key,
   hasTools |-> tls # <<>>,
   tool_choice |-> IF tls # <<>> THEN "auto" ELSE ""]

\* mutant: the whole body goes into the message
AIRequestFailed_WholeBody(r) ==
  [status |-> r.status, msg |-> "AI request failed", excerpt |-> Slice(r.text, r.text.len)]

\* what openaiCompatChat throws on the response r, [msg |-> ""] when it returns
AIRequestFailed(r) ==
  [status |-> r.status, msg |-> "AI request failed", excerpt |-> Slice(r.text, ExcerptCap)]
openaiCompatChatError(r) ==
  IF ~r.ok \/ ~Truthy(r.json) THEN AIRequestFailed(r) ELSE [msg |-> ""]

\* out?.choices?.[0]?.message || {}
MessageOf(out) ==
  IF Has(out, "choices") /\ out.choices # <<>> /\ Has(out.choices[1], "message")
  THEN out.choices[1].message ELSE [empty |-> TRUE]

\* Array.isArray(msg.tool_calls) ? msg.tool_calls : []
ToolCallsOf(m) ==
  IF Has(m, "tool_calls") /\ m.tool_calls.k = "array" THEN m.tool_calls.items ELSE <<>>

\* mutant: the content is dropped
ContentOf_Dropped(m) == EmptyStr

\* String(msg.content || "")
ContentOf(m) == IF Has(m, "content") THEN m.content ELSE EmptyStr

(* ------------------------------ tool loop ----------------------------- *)
\* tc?.function?.arguments || "{}" then JSON.parse, {raw: argsStr} on failure
EmptyObjectText == [val |-> [t |-> "obj"], len |-> 2]
ArgsStr(tc) ==
  IF Has(tc.function, "arguments") /\ tc.function.arguments.len > 0
  THEN tc.function.arguments ELSE EmptyObjectText
\* mutant: a string that does not parse is passed on unwrapped
DecodeArgs_NoWrap(tc) == JSONparse(ArgsStr(tc))

DecodeArgs(tc) ==
  IF JSONparse(ArgsStr(tc)) # NotJson THEN JSONparse(ArgsStr(tc))
  ELSE [t |-> "obj", raw |-> ArgsStr(tc)]

\* the POST /mcp/call request for tool call tc
InvokeRequest(url, tc, tn) ==
  [url |-> url,
   name |-> tc.function.name,
   tenant |-> tn,
   kind |-> "invoke",
   ev |-> "req",
   args |-> DecodeArgs(tc)]

\* mutant: the id of the call is not copied
ToolMessage_NoId(tc, cr) ==
  [role |-> "tool",
   content |-> IF Truthy(cr.json) THEN JSONstringify(cr.json) ELSE cr.text,
   tool_call_id |-> 0]

\* mutant: the raw text is always taken
ToolMessage_RawText(tc, cr) ==
  [role |-> "tool", content |-> cr.text, tool_call_id |-> tc.id]

\* the tool-result message pushed for tool call tc and broker answer cr
ToolMessage(tc, cr) ==
  [role |-> "tool",
   content |-> IF Truthy(cr.json) THEN JSONstringify(cr.json) ELSE cr.text,
   tool_call_id |-> tc.id]

RespEvent(kind, r) == [kind |-> kind, ev |-> "resp", resp |-> r]
FailEvent(kind) == [kind |-> kind, ev |-> "fail"]

(* ------------------------ POST /api/agent/chat ------------------------ *)
\* no chat turn is in progress
ChatIdle ==
  /\ pc = "idle"
  /\ parsed = NoParsed
  /\ settings = NoSettings
  /\ cfg = NoCfg
  /\ mcpUrl = <<>>
  /\ tenant = ""
  /\ enableTools = FALSE
  /\ messages = <<>>
  /\ tools = <<>>
  /\ toolCalls = <<>>
  /\ follow = <<>>
  /\ idx = 0
  /\ net = <<>>
  /\ res = NoRes
  /\ raw = NoSettings

\* the locals of a handler that has not been entered
IdleTurn ==
  [enableTools |-> FALSE,
   tools |-> <<>>,
   pc |-> "idle",
   parsed |-> NoParsed,
   settings |-> NoSettings,
   cfg |-> NoCfg,
   mcpUrl |-> <<>>,
   tenant |-> "",
   messages |-> <<>>,
   toolCalls |-> <<>>,
   follow |-> <<>>,
   idx |-> 0,
   net |-> <<>>,
   res |-> NoRes,
   raw |-> NoSettings]

\* nothing but the chat handler runs
OutsideIdle ==
  /\ parked = IdleTurn
  /\ supplied = {} /\ sres = NoRes
  /\ list = <<>> /\ normalized = <<>>
  /\ orderBy = <<>> /\ ordered = <<>> /\ rawBase = <<>> /\ bases = <<>>
  /\ bpc = "idle" /\ call = NoParsed /\ resolved = NoSettings /\ bnet = <<>>
  /\ bres = NoRes

Init ==
  /\ env \in EnvCases
  /\ store \in StoreCases
  /\ ChatIdle
  /\ OutsideIdle

\* the turn ends with the response r
Finish(state, r) ==
  /\ pc' = state
  /\ res' = r

\* the handler throws: the catch writes 500 server_error
Throw(detail) == Finish("failed", server_error(detail))

\* a request arrives while no turn is in progress.  A body that does not
\* parse, or parses to null, throws before anything else happens.
TurnRejected(body) ==
  /\ pc = "idle"
  /\ body.kind \in {"null", "junk"}
  /\ parsed' = body
  /\ settings' = IF body.kind = "junk" THEN NoSettings
                 ELSE effectiveSettings(store, env)
  /\ raw' = IF body.kind = "junk" THEN NoSettings ELSE store
  /\ Throw(IF body.kind = "junk" THEN [msg |-> "Unexpected token"]
           ELSE [msg |-> "Cannot read properties of null"])
  /\ cfg' = NoCfg /\ mcpUrl' = <<>> /\ tenant' = "" /\ enableTools' = FALSE
  /\ messages' = <<>> /\ tools' = <<>> /\ toolCalls' = <<>> /\ follow' = <<>>
  /\ idx' = 0 /\ net' = <<>>
  /\ UNCHANGED <<outside, env, store>>

\* lines 296-325 up to the first await of the network
StartTurn(body) ==
  /\ pc = "idle"
  /\ body.kind = "obj"
  /\ parsed' = body
  /\ raw' = store
  /\ settings' = effectiveSettings(store, env)
  /\ LET s        == effectiveSettings(store, env)
         provider == ToLowerCase(IF body.provider # "" THEN body.provider ELSE "openai")
         c        == providerConfig(provider, s)
         system   == Trim(body.system)
         textIn   == Trim(body.text)
         msgs     == (IF system # <<>> THEN <<[role |-> "system", content |-> Str(system)]>>
                      ELSE <<>>)
                     \o <<[role |-> "user", content |-> Str(textIn)]>>
         url      == StripSlash(Trim(IF s.mcp.url # <<>> THEN s.mcp.url
                                     ELSE MCP_URL_DEFAULT(env)))
         tn       == IF s.maximo.defaultTenant # "" THEN s.maximo.defaultTenant
                     ELSE "default"
     IN /\ cfg' = c
        /\ IF c.key = ""
           THEN /\ Finish("failed", json(400, [error |-> "missing_api_key",
                                               detail |-> [provider |-> provider,
                                                           msg |-> "Missing API key"]]))
                /\ messages' = <<>> /\ mcpUrl' = <<>> /\ tenant' = ""
                /\ enableTools' = FALSE /\ net' = <<>>
           ELSE IF textIn = <<>>
           THEN /\ Finish("failed", json(400, [error |-> "missing_text"]))
                /\ messages' = <<>> /\ mcpUrl' = <<>> /\ tenant' = ""
                /\ enableTools' = FALSE /\ net' = <<>>
           ELSE /\ messages' = msgs
                /\ mcpUrl' = url
                /\ tenant' = tn
                /\ enableTools' = s.mcp.enableTools
                /\ res' = NoRes
                /\ IF s.mcp.enableTools /\ url # <<>>
                   THEN /\ pc' = "awaitCatalog"
                        /\ net' = <<[url |-> url,
                                     tenant |-> tn,
                                     kind |-> "catalog",
                                     ev |-> "req"]>>
                   ELSE /\ pc' = "awaitFirst"
                        /\ net' = <<openaiCompatChatRequest(c, msgs, <<>>)>>
  /\ tools' = <<>> /\ toolCalls' = <<>> /\ follow' = <<>> /\ idx' = 0
  /\ UNCHANGED <<outside, env, store>>

\* line 320 rejects: nothing catches it before the handler's catch
CatalogFetchFails ==
  /\ pc = "awaitCatalog"
  /\ net' = Append(net, FailEvent("catalog"))
  /\ Throw(FetchFailed)
  /\ UNCHANGED <<outside, env, store, raw, parsed, settings, cfg, mcpUrl, tenant, enableTools, messages,
                 tools, toolCalls, follow, idx>>

\* lines 320-325: the catalog answer r arrives, the first completion is sent
RecvCatalog(r) ==
  /\ pc = "awaitCatalog"
  /\ LET tr       == fetchJson(r)
         rawTools == IF tr.ok /\ Truthy(tr.json) /\ Has(tr.json, "tools")
                        /\ tr.json.tools.k = "array"
                     THEN tr.json.tools.items ELSE <<>>
         tls      == toOpenAITools(rawTools)
     IN /\ tools' = tls
        /\ net' = net \o <<RespEvent("catalog", r),
                           openaiCompatChatRequest(cfg, messages, tls)>>
  /\ pc' = "awaitFirst"
  /\ UNCHANGED <<outside, env, store, raw, parsed, settings, cfg, mcpUrl, tenant, enableTools, messages,
                 toolCalls, follow, idx, res>>

\* the fetch of a completion rejects
CompletionFetchFails ==
  /\ pc \in {"awaitFirst", "awaitFollowup"}
  /\ net' = Append(net, FailEvent("completion"))
  /\ Throw(FetchFailed)
  /\ UNCHANGED <<outside, env, store, raw, parsed, settings, cfg, mcpUrl, tenant, enableTools, messages,
                 tools, toolCalls, follow, idx>>

\* lines 341-345 for tool call number i: fetch of a relative URL rejects at
\* once when the broker URL is empty, else the request goes out
SendInvoke(i, tcs, fl, log) ==
  /\ idx' = i
  /\ follow' = fl
  /\ IF mcpUrl = <<>>
     THEN /\ net' = log
          /\ Throw(FetchFailed)
     ELSE /\ net' = Append(log, InvokeRequest(mcpUrl, tcs[i], tenant))
          /\ pc' = "awaitInvoke"
          /\ res' = NoRes

\* lines 325-345: the answer r to the first completion arrives
RecvFirst(r) ==
  /\ pc = "awaitFirst"
  /\ LET fr  == fetchJson(r)
         err == openaiCompatChatError(fr)
         msg == MessageOf(fr.json)
         tcs == ToolCallsOf(msg)
         log == Append(net, RespEvent("completion", r))
     IN IF err.msg # ""
        THEN /\ Throw(err)
             /\ net' = log
             /\ UNCHANGED <<toolCalls, follow, idx>>
        ELSE IF tcs = <<>>
        THEN /\ Finish("done", json(200, [reply |-> ContentOf(msg)]))
             /\ net' = log
             /\ UNCHANGED <<toolCalls, follow, idx>>
        ELSE /\ toolCalls' = tcs
             /\ SendInvoke(1, tcs, Append(messages, msg), log)
  /\ UNCHANGED <<outside, env, store, raw, parsed, settings, cfg, mcpUrl, tenant, enableTools, messages, tools>>

\* the fetch of /mcp/call rejects
InvokeFetchFails ==
  /\ pc = "awaitInvoke"
  /\ net' = Append(net, FailEvent("invoke"))
  /\ Throw(FetchFailed)
  /\ UNCHANGED <<outside, env, store, raw, parsed, settings, cfg, mcpUrl, tenant, enableTools, messages,
                 tools, toolCalls, follow, idx>>

\* what the handler does with the broker's answer r to tool call idx
InvokeAnswered(r) ==
  /\ pc = "awaitInvoke"
  /\ LET cr  == fetchJson(r)
         fl  == Append(follow, ToolMessage(toolCalls[idx], cr))
         log == Append(net, RespEvent("invoke", r))
     IN IF idx < Len(toolCalls)
        THEN SendInvoke(idx + 1, toolCalls, fl, log)
        ELSE /\ follow' = fl
             /\ net' = Append(log, openaiCompatChatRequest(cfg, fl, <<>>))
             /\ pc' = "awaitFollowup"
             /\ UNCHANGED <<idx, res>>
  /\ UNCHANGED <<raw, parsed, settings, cfg, mcpUrl, tenant, enableTools, messages,
                 tools, toolCalls>>

\* mutant: the loop stops one tool call early
RecvInvoke_SkipLast(r) ==
  /\ pc = "awaitInvoke"
  /\ LET cr  == fetchJson(r)
         fl  == Append(follow, ToolMessage(toolCalls[idx], cr))
         log == Append(net, RespEvent("invoke", r))
     IN IF idx + 1 < Len(toolCalls)
        THEN SendInvoke(idx + 1, toolCalls, fl, log)
        ELSE /\ follow' = fl
             /\ net' = Append(log, openaiCompatChatRequest(cfg, fl, <<>>))
             /\ pc' = "awaitFollowup"
             /\ UNCHANGED <<idx, res>>
  /\ UNCHANGED <<outside, env, store, raw, parsed, settings, cfg, mcpUrl, tenant, enableTools,
                 messages, tools, toolCalls>>

\* lines 347-354: the broker's answer r to tool call idx arrives; the next
\* tool call is sent, or the follow-up completion after the last one
RecvInvoke(r) ==
  /\ InvokeAnswered(r)
  /\ UNCHANGED <<outside, env, store>>

\* mutant: a failed follow-up completion starts the turn over
RecvFollowup_Restart(r) ==
  /\ pc = "awaitFollowup"
  /\ LET fr  == fetchJson(r)
         err == openaiCompatChatError(fr)
     IN IF err.msg # ""
        THEN /\ pc' = "awaitFirst"
             /\ net' = <<openaiCompatChatRequest(cfg, messages, tools)>>
             /\ toolCalls' = <<>> /\ follow' = <<>> /\ idx' = 0
             /\ res' = NoRes
        ELSE /\ Finish("done", json(200, [reply |-> ContentOf(MessageOf(fr.json))]))
             /\ net' = Append(net, RespEvent("completion", r))
             /\ UNCHANGED <<toolCalls, follow, idx>>
  /\ UNCHANGED <<outside, env, store, raw, parsed, settings, cfg, mcpUrl, tenant, enableTools, messages,
                 tools>>

\* lines 354-356: the answer r to the follow-up completion arrives
RecvFollowup(r) ==
  /\ pc = "awaitFollowup"
  /\ LET fr  == fetchJson(r)
         err == openaiCompatChatError(fr)
     IN IF err.msg # ""
        THEN Throw(err)
        ELSE Finish("done", json(200, [reply |-> ContentOf(MessageOf(fr.json))]))
  /\ net' = Append(net, RespEvent("completion", r))
  /\ UNCHANGED <<outside, env, store, raw, parsed, settings, cfg, mcpUrl, tenant, enableTools, messages,
                 tools, toolCalls, follow, idx>>

\* the response has been written and the handler has returned: the server
\* waits for the next request
EndTurn ==
  /\ pc \in {"failed", "done"}
  /\ pc' = "idle"
  /\ raw' = NoSettings
  /\ parsed' = NoParsed /\ settings' = NoSettings /\ cfg' = NoCfg /\ mcpUrl' = <<>> /\ tenant' = ""
  /\ enableTools' = FALSE /\ messages' = <<>> /\ tools' = <<>>
  /\ toolCalls' = <<>> /\ follow' = <<>> /\ idx' = 0 /\ net' = <<>>
  /\ res' = NoRes
  /\ UNCHANGED <<outside, env, store>>

ChatBody(p, t, sy) == [text |-> t, provider |-> p, kind |-> "obj", system |-> sy]

Next ==
  \/ \E k \in {"null", "junk"} : TurnRejected([kind |-> k])
  \/ \E p \in DOMAIN ChatProviders, t \in DOMAIN ChatTexts, sy \in DOMAIN ChatSystems :
       StartTurn(ChatBody(ChatProviders[p], ChatTexts[t], ChatSystems[sy]))
  \/ CatalogFetchFails
  \/ \E i \in DOMAIN CatalogResponses : RecvCatalog(CatalogResponses[i])
  \/ CompletionFetchFails
  \/ \E i \in DOMAIN PlainResponses : RecvFirst(PlainResponses[i])
  \/ \E f \in ArgChoices : RecvFirst(ToolCallResponse(f))
  \/ InvokeFetchFails
  \/ \E i \in DOMAIN InvokeResponses : RecvInvoke(InvokeResponses[i])
  \/ \E i \in DOMAIN PlainResponses : RecvFollowup(PlainResponses[i])
  \/ RecvFollowup(ToolCallResponse(<<2>>))
  \/ EndTurn

Spec == Init /\ [][Next]_vars

(* ================= chat turns whose external calls end ================ *)
\* the external call the turn waits for returns or fails
ExternalCallEnds ==
  \/ CatalogFetchFails
  \/ \E i \in DOMAIN CatalogResponses : RecvCatalog(CatalogResponses[i])
  \/ CompletionFetchFails
  \/ \E i \in DOMAIN PlainResponses : RecvFirst(PlainResponses[i])
  \/ \E n \in 1..MaxToolCalls, a \in {2, 3} : RecvFirst(ToolCallResponse([i \in 1..n |-> a]))
  \/ InvokeFetchFails
  \/ \E i \in DOMAIN InvokeResponses : RecvInvoke(InvokeResponses[i])
  \/ \E i \in DOMAIN PlainResponses : RecvFollowup(PlainResponses[i])
  \/ RecvFollowup(ToolCallResponse(<<2>>))

LiveNext ==
  \/ \E k \in {"null", "junk"} : TurnRejected([kind |-> k])
  \/ \E p \in DOMAIN ChatProviders, t \in DOMAIN ChatTexts, sy \in DOMAIN ChatSystems :
       StartTurn(ChatBody(ChatProviders[p], ChatTexts[t], ChatSystems[sy]))
  \/ ExternalCallEnds
  \/ EndTurn

\* a pending fetch settles, and a handler that has written its response returns
LiveSpec ==
  Init /\ [][LiveNext]_vars /\ WF_vars(ExternalCallEnds) /\ WF_vars(EndTurn)

(* ===================== the tool schema normalizer alone =============== *)
\* the agent process with no request in progress and nothing configured
AgentAtRest ==
  /\ env = CHOOSE e \in EnvCases : e.OPENAI_API_KEY = "" /\ e.MISTRAL_API_KEY = ""
  /\ store = CHOOSE s \in StoreCases : s.mcp.url = MCP_URL_BUILTIN
  /\ ChatIdle

\* the records a catalog may hold: canonical, broker-native and malformed ones
ToolRecord(fn) == [type |-> "function", function |-> fn]
RawToolCases ==
  << CanonicalTool("maximo.listOS"),
     NativeTool("maximo.queryOS"),
     [nul |-> TRUE],
     [description |-> "nameless"],
     ToolRecord([name |-> <<"bare">>]),
     ToolRecord([name |-> <<"nullSchema">>, parameters |-> [k |-> "null"]]),
     ToolRecord([name |-> <<"emptySchema">>, parameters |-> [k |-> "obj"]]),
     ToolRecord([name |-> <<"arraySchema">>, description |-> "[]",
                 parameters |-> [k |-> "array"]]),
     [name |-> <<" ", "padded", " ">>, inputSchema |-> [k |-> "str"]],
     [name |-> <<" ">>, description |-> "blank"],
     ToolRecord([name |-> EmptyArray]),
     [type |-> "tool", function |-> [name |-> <<"inner">>], name |-> <<"other">>],
     [name |-> EmptyArray, inputSchema |-> [k |-> "array"]] >>

\* the arrays of at most MaxCatalog such records
Catalogs ==
  UNION { { [i \in 1..n |-> RawToolCases[f[i]]] : f \in [1..n -> DOMAIN RawToolCases] }
          : n \in 0..MaxCatalog }

NormInit ==
  /\ list \in Catalogs
  /\ normalized = <<>>
  /\ AgentAtRest
  /\ parked = <<>> /\ supplied = {} /\ sres = NoRes
  /\ orderBy = <<>> /\ ordered = <<>> /\ rawBase = <<>> /\ bases = <<>>
  /\ bpc = "idle" /\ call = NoParsed /\ resolved = NoSettings /\ bnet = <<>>
  /\ bres = NoRes

\* toOpenAITools is called: with list first, then with what it returned
Normalize ==
  /\ Len(normalized) < MaxApplications
  /\ normalized' = Append(normalized,
                          toOpenAITools(IF normalized = <<>> THEN list
                                        ELSE normalized[Len(normalized)]))
  /\ UNCHANGED <<env, store, chatVars, parked, supplied, sres, list, orderVars, brokerVars>>

NormNext == Normalize

NormSpec == NormInit /\ [][NormNext]_vars

(* ============================== properties ============================ *)
IsReq(e, kind) == e.ev = "req" /\ e.kind = kind
IsResp(e, kind) == e.ev = "resp" /\ e.kind = kind
IsCompletionReq(e) == IsReq(e, "completion")
IsInvokeReq(e) == IsReq(e, "invoke")
CompletionReqs == SelectSeq(net, IsCompletionReq)
InvokeReqs == SelectSeq(net, IsInvokeReq)

\* the turn ended because a fetch rejected
FetchRejected ==
  /\ pc = "failed"
  /\ res.body.error = "server_error"
  /\ res.body.detail.msg = "fetch failed"

\* the response r of the provider is non-2xx or its body does not decode
ProviderFailure(r) == ~r.ok \/ r.text.val = NotJson

\* positions of net holding the response to a completion request
CompletionResps == {j \in DOMAIN net : IsResp(net[j], "completion")}
FirstResp == CHOOSE j \in CompletionResps : \A k \in CompletionResps : j <= k

\* the argument string of tool call tc is present and is not valid JSON
MalformedArgs(tc) ==
  /\ Has(tc.function, "arguments")
  /\ tc.function.arguments.len > 0
  /\ tc.function.arguments.val = NotJson

\* C1: in every chat turn at most two completion requests are sent to the
\* provider; the second one carries neither tools nor tool_choice; no broker
\* invoke follows the second completion request, so tool calls of the second
\* response are never executed.
C1_TwoRoundsCeiling ==
  /\ Len(CompletionReqs) <= 2
  /\ Len(InvokeReqs) <= Len(toolCalls)
  /\ Len(CompletionReqs) = 2 =>
       /\ ~CompletionReqs[2].hasTools
       /\ CompletionReqs[2].tools = <<>>
       /\ CompletionReqs[2].tool_choice = ""
       /\ \A k \in DOMAIN net :
            (IsCompletionReq(net[k]) /\ \E j \in 1..(k - 1) : IsCompletionReq(net[j]))
              => \A m \in (k + 1)..Len(net) : net[m].ev # "req"

\* C1 witness: a turn is done whose second completion response carried tool calls
C1_Witness ==
  /\ pc = "done"
  /\ Len(CompletionReqs) = 2
  /\ ToolCallsOf(MessageOf(net[Len(net)].resp.text.val)) # <<>>

\* C2: when the first completion carries n >= 1 tool calls and no fetch
\* rejects, the finished turn has sent exactly two completion requests and
\* exactly n invokes, in the provider's order; after the first completion's
\* response the traffic is invoke 1, its response, ..., invoke n, its
\* response, the follow-up request, its response; a done turn replies with
\* the content of the second completion.
C2_ToolTurnShape ==
  (toolCalls # <<>> /\ pc \in {"failed", "done"} /\ ~FetchRejected) =>
    LET n    == Len(toolCalls)
        p    == FirstResp
        last == net[Len(net)]
    IN /\ Len(CompletionReqs) = 2
       /\ Len(InvokeReqs) = n
       /\ Len(net) = p + 2 * n + 2
       /\ \A i \in 1..n :
            /\ IsInvokeReq(net[p + 2 * i - 1])
            /\ net[p + 2 * i - 1].name = toolCalls[i].function.name
            /\ IsResp(net[p + 2 * i], "invoke")
       /\ IsCompletionReq(net[p + 2 * n + 1])
       /\ IsResp(last, "completion")
       /\ pc = "done" =>
            LET m == last.resp.text.val.choices
            IN res = [status |-> 200,
                      body |-> [reply |-> IF m # <<>> /\ Has(m[1].message, "content")
                                          THEN m[1].message.content ELSE EmptyStr]]

\* C2 witness: a done turn that executed two tool calls and replies with text
C2_Witness ==
  /\ pc = "done"
  /\ Len(toolCalls) = 2
  /\ Len(InvokeReqs) = 2
  /\ res.body.reply = Str(<<"12 assets">>)

\* C3: when the first completion decodes and its message carries no tool
\* calls, the turn is done after one completion request and no invoke, and
\* the reply is the message's content, the empty string when there is none.
C3_NoToolCallsReply ==
  \A j \in CompletionResps :
    (j = FirstResp /\ ~ProviderFailure(net[j].resp) /\ net[j].resp.text.val # JsonNull
     /\ ToolCallsOf(MessageOf(net[j].resp.text.val)) = <<>>) =>
      LET m == MessageOf(net[j].resp.text.val)
      IN /\ pc = "done"
         /\ j = Len(net)
         /\ Len(CompletionReqs) = 1
         /\ Len(InvokeReqs) = 0
         /\ res = [status |-> 200,
                   body |-> [reply |-> IF Has(m, "content") THEN m.content ELSE EmptyStr]]

\* C3 witness: a done turn with one completion and a non-empty reply
C3_Witness ==
  /\ pc = "done"
  /\ toolCalls = <<>>
  /\ Len(CompletionReqs) = 1
  /\ res.body.reply = Str(<<"12 assets">>)

\* the credential the effective settings st hold for the provider named in
\* the request body b
SelectedCredential(b, st) ==
  LET p == ToLowerCase(IF b.provider = "" THEN "openai" ELSE b.provider)
  IN CASE p = "openai"   -> st.ai.openai_key
       [] p = "mistral"  -> st.ai.mistral_key
       [] p = "deepseek" -> st.ai.deepseek_key
       [] OTHER          -> ""

\* C4: when the provider selected by the request has an empty credential in
\* the effective settings, the turn has failed with the missing-credential
\* error and no external request was made.
C4_MissingCredentialNoNetwork ==
  (parsed.kind = "obj" /\ SelectedCredential(parsed, settings) = "") =>
    /\ pc = "failed"
    /\ res.status = 400
    /\ res.body.error = "missing_api_key"
    /\ net = <<>>

\* C4 witness: a request with a text for an unrecognized provider was refused
C4_Witness ==
  /\ pc = "failed"
  /\ parsed.kind = "obj"
  /\ parsed.provider = "watsonx"
  /\ Trim(parsed.text) # <<>>
  /\ res.body.error = "missing_api_key"

\* C5 as claimed: an empty or blank user text is rejected with the
\* missing-text error and no network call, whatever the credential state.
C5_Original ==
  (parsed.kind = "obj" /\ TrimRight(TrimLeft(parsed.text)) = <<>>) =>
    /\ pc = "failed"
    /\ res.body.error = "missing_text"
    /\ net = <<>>

\* C5 amended: an empty or blank user text is rejected with a 400 and no
\* network call; the error is missing_text when the selected provider has a
\* credential, and missing_api_key when it has none (the credential check
\* comes first).
C5_BlankTextRejected ==
  (parsed.kind = "obj" /\ TrimRight(TrimLeft(parsed.text)) = <<>>) =>
    /\ pc = "failed"
    /\ res.status = 400
    /\ res.body.error = IF SelectedCredential(parsed, settings) = ""
                        THEN "missing_api_key" ELSE "missing_text"
    /\ net = <<>>

\* C5 witness: a blank text with a credential present was refused
C5_Witness ==
  /\ pc = "failed"
  /\ parsed.kind = "obj"
  /\ parsed.text = <<" ">>
  /\ SelectedCredential(parsed, settings) # ""
  /\ res.body.error = "missing_text"

\* the catalog fetch of the turn has failed: the fetch rejected, or the
\* response is non-2xx, does not decode, or has no tools array
CatalogFailed(j) ==
  \/ net[j].ev = "fail" /\ net[j].kind = "catalog"
  \/ /\ IsResp(net[j], "catalog")
     /\ \/ ~net[j].resp.ok
        \/ net[j].resp.text.val = NotJson
        \/ ~Has(net[j].resp.text.val, "tools")
        \/ net[j].resp.text.val.tools.k # "array"

\* C6 as claimed: when the catalog fetch fails in any way, the turn does not
\* fail and the first completion is requested with no tools offered.
C6_CatalogFailureDegrades ==
  \A j \in DOMAIN net :
    CatalogFailed(j) =>
      /\ ~(pc = "failed" /\ j = Len(net))
      /\ Len(CompletionReqs) >= 1
      /\ ~CompletionReqs[1].hasTools

\* C7: a completion response (first or follow-up) that is non-2xx or does
\* not decode ends the turn failed with the "AI request failed" error, which
\* carries the upstream status and the first ExcerptCap characters of the
\* body at most; nothing is requested after it.
C7_ProviderFailureFailsTurn ==
  \A j \in CompletionResps :
    ProviderFailure(net[j].resp) =>
      /\ j = Len(net)
      /\ pc = "failed"
      /\ res.status = 500
      /\ res.body.error = "server_error"
      /\ res.body.detail.msg = "AI request failed"
      /\ res.body.detail.status = net[j].resp.status
      /\ res.body.detail.excerpt.src = net[j].resp.text
      /\ res.body.detail.excerpt.len <= ExcerptCap
      /\ res.body.detail.excerpt.len =
           IF net[j].resp.text.len < ExcerptCap THEN net[j].resp.text.len ELSE ExcerptCap

\* C7 witness: a turn failed on a provider body longer than ExcerptCap
C7_Witness ==
  /\ pc = "failed"
  /\ res.status = 500
  /\ res.body.detail.msg = "AI request failed"
  /\ res.body.detail.excerpt.src.len > ExcerptCap
  /\ res.body.detail.excerpt.len = ExcerptCap

\* C8: a tool call whose argument string is not valid JSON does not fail the
\* turn: its invoke is sent with the argument object {raw: the string}; a
\* turn with tool calls only fails when a fetch rejects or the follow-up
\* completion fails, and otherwise all invokes and the follow-up are sent.
C8_MalformedArgsWrapped ==
  /\ \A i \in DOMAIN toolCalls :
       (MalformedArgs(toolCalls[i]) /\ i <= Len(InvokeReqs)) =>
         InvokeReqs[i].args = [t |-> "obj", raw |-> toolCalls[i].function.arguments]
  /\ (toolCalls # <<>> /\ pc = "failed") =>
       res.body.detail.msg \in {"fetch failed", "AI request failed"}
  /\ (toolCalls # <<>> /\ pc \in {"failed", "done"} /\ ~FetchRejected) =>
       /\ Len(InvokeReqs) = Len(toolCalls)
       /\ Len(CompletionReqs) = 2

\* C8 witness: a done turn whose first tool call had a malformed argument
\* string and whose second had a valid one
C8_Witness ==
  /\ pc = "done"
  /\ Len(toolCalls) = 2
  /\ MalformedArgs(toolCalls[1])
  /\ ~MalformedArgs(toolCalls[2])
  /\ InvokeReqs[1].args = [t |-> "obj", raw |-> toolCalls[1].function.arguments]

\* C9: the follow-up completion is sent the messages of the first completion
\* ([system,] user) unchanged, then the assistant message with its tool
\* calls, then one tool message per tool call in call order, the i-th with
\* the i-th call's id.
C9_FollowupMessages ==
  Len(CompletionReqs) = 2 =>
    LET first  == CompletionReqs[1].messages
        second == CompletionReqs[2].messages
        k      == Len(first)
        n      == Len(toolCalls)
    IN /\ k \in {1, 2}
       /\ first[k].role = "user"
       /\ k = 2 => first[1].role = "system"
       /\ Len(second) = k + 1 + n
       /\ SubSeq(second, 1, k) = first
       /\ second[k + 1].role = "assistant"
       /\ second[k + 1].tool_calls.items = toolCalls
       /\ \A i \in 1..n :
            /\ second[k + 1 + i].role = "tool"
            /\ second[k + 1 + i].tool_call_id = toolCalls[i].id

\* C9 witness: a follow-up request with a system message and two tool calls
C9_Witness ==
  /\ Len(CompletionReqs) = 2
  /\ Len(toolCalls) = 2
  /\ Len(CompletionReqs[2].messages) = 5

\* positions of net holding a broker answer to an invoke
InvokeResps == {j \in DOMAIN net : IsResp(net[j], "invoke")}
\* the number of the tool call the answer at position j belongs to
CallNumber(j) == Cardinality({k \in InvokeResps : k <= j})

\* C10: a non-2xx answer of the broker to an invoke does not fail the turn:
\* the tool message of that call holds the body, re-serialized when it
\* decodes and as raw text when it does not, and the next request (the next
\* invoke, or the follow-up completion after the last call) is sent.
C10_FailedInvokeFolded ==
  \A j \in InvokeResps :
    ~net[j].resp.ok =>
      LET i == CallNumber(j)
          k == Len(messages) + 1 + i
          r == net[j].resp
      IN /\ Len(follow) >= k
         /\ follow[k].role = "tool"
         /\ follow[k].tool_call_id = toolCalls[i].id
         /\ follow[k].content = IF r.text.val # NotJson THEN [ser |-> r.text.val]
                                ELSE r.text
         /\ j < Len(net)
         /\ IF i < Len(toolCalls) THEN IsInvokeReq(net[j + 1])
            ELSE IsCompletionReq(net[j + 1])

\* C10 witness: a done turn whose first invoke was answered 404 with JSON and
\* whose second was answered 502 with a body that is not JSON
C10_Witness ==
  /\ pc = "done"
  /\ Len(toolCalls) = 2
  /\ \E j \in InvokeResps, k \in InvokeResps :
       /\ j < k
       /\ net[j].resp.status = 404
       /\ net[k].resp.status = 502

(* ========================= normalizeOrderBy alone ===================== *)
\* An ordering string in chunks: a blank, a sign and a comma are chunks of
\* their own, every other chunk is a run of the characters [a-zA-Z0-9_.].
OrderByChunks == {"-", "+", ",", " ", "asc", "DESC", "desc", "Desc", "changedate"}
IsWordChunk(c) == c \notin {"-", "+", ",", " "}
IsDirectionWord(c) == ToLowerCase(c) \in {"asc", "desc"}

\* mutant: the direction word is compared as it is written
IsDesc_CaseSensitive(d) == d = "desc"

\* m[2].toLowerCase() === "desc"
IsDesc(d) == ToLowerCase(d) = "desc"

\* s.match(/^([a-zA-Z0-9_\.]+)\s+(asc|desc)$/i): the length of the field
\* in chunks, 0 when s does not match
FieldLen(s) ==
  LET n  == Len(s)
      ks == {k \in 1..(n - 2) :
               /\ \A i \in 1..k : IsWordChunk(s[i])
               /\ \A i \in (k + 1)..(n - 1) : s[i] = " "}
  IN IF n >= 3 /\ IsDirectionWord(s[n]) /\ ks # {} THEN CHOOSE k \in ks : TRUE ELSE 0

normalizeOrderBy(o) ==
  LET s == Trim(o)
      k == FieldLen(s)
  IN IF s = <<>> THEN <<>>
     ELSE IF s[1] \in {"-", "+"} THEN s
     ELSE IF k > 0
          THEN <<(IF IsDesc(s[Len(s)]) THEN "-" ELSE "+")>> \o SubSeq(s, 1, k)
     ELSE <<"+">> \o s

OrderInit ==
  /\ orderBy \in UNION {[1..n -> OrderByChunks] : n \in 0..MaxOrderByLen}
  /\ ordered = <<>> /\ rawBase = <<>> /\ bases = <<>>
  /\ AgentAtRest
  /\ parked = <<>> /\ supplied = {} /\ sres = NoRes
  /\ list = <<>> /\ normalized = <<>>
  /\ bpc = "idle" /\ call = NoParsed /\ resolved = NoSettings /\ bnet = <<>>
  /\ bres = NoRes

\* normalizeOrderBy is called: with orderBy first, then with what it returned
NormalizeOrder ==
  /\ Len(ordered) < MaxApplications
  /\ ordered' = Append(ordered,
                       normalizeOrderBy(IF ordered = <<>> THEN orderBy
                                        ELSE ordered[Len(ordered)]))
  /\ UNCHANGED <<env, store, chatVars, parked, supplied, sres, normVars, orderBy, rawBase, bases,
                 brokerVars>>

OrderNext == NormalizeOrder

OrderSpec == OrderInit /\ [][OrderNext]_vars

(* ========================= POST /api/settings ========================= *)
\* An object is a record of the fields it has, {} the record without fields.
\* { ...a, ...b }
Merge(a, b) ==
  [f \in (DOMAIN a) \cup (DOMAIN b) |-> IF f \in DOMAIN b THEN b[f] ELSE a[f]]
\* obj with its field f set to v
With(obj, f, v) == Merge(obj, [g \in {f} |-> v])
\* obj[f] || {}
SectionOr(obj, f) == IF Has(obj, f) THEN obj[f] ELSE <<>>

\* mutant: the key stays in the section
StripApiKey_Keep(m) == m

\* delete next.maximo.apiKey
StripApiKey(m) == [g \in (DOMAIN m) \ {"apiKey"} |-> m[g]]

\* String(t.f || "").trim() of a tenant record of the payload
TrimmedField(t, f) == IF Has(t, f) THEN Trim(String(t[f])) ELSE <<>>
TenantOf(t) ==
  [id |-> TrimmedField(t, "id"),
   label |-> TrimmedField(t, "label"),
   maximoBaseUrl |-> TrimmedField(t, "maximoBaseUrl"),
   org |-> TrimmedField(t, "org"),
   site |-> TrimmedField(t, "site")]
HasId(t) == t.id # <<>>
TenantsOf(ts) == SelectSeq([i \in DOMAIN ts |-> TenantOf(ts[i])], HasId)

\* saveSettingsFromUI throws: t.id of a null entry of payload.tenants
SaveThrows(payload) ==
  /\ payload.kind = "obj"
  /\ Has(payload, "tenants")
  /\ \E i \in DOMAIN payload.tenants : Has(payload.tenants[i], "nul")

\* saveSettingsFromUI: the file content written for payload over cur
saveSettingsFromUI(cur, payload) ==
  IF payload.kind # "obj" THEN cur
  ELSE LET n1 == IF Has(payload, "ui")
                 THEN With(cur, "ui", Merge(SectionOr(cur, "ui"), payload.ui))
                 ELSE cur
           n2 == IF Has(payload, "maximo")
                 THEN With(n1, "maximo",
                           StripApiKey(Merge(SectionOr(n1, "maximo"), payload.maximo)))
                 ELSE n1
           n3 == IF Has(payload, "mcp")
                 THEN With(n2, "mcp", Merge(SectionOr(n2, "mcp"), payload.mcp))
                 ELSE n2
       IN IF Has(payload, "tenants")
          THEN With(n3, "tenants", TenantsOf(payload.tenants))
          ELSE n3

\* what SETTINGS_FILE holds before the first save: the file ensureSettingsFile
\* writes, or a file seeded by hand with credentials in it
SavedStores ==
  << [mcp |-> [url |-> MCP_URL_BUILTIN, enableTools |-> FALSE],
      maximo |-> <<>>,
      tenants |-> <<>>,
      ui |-> <<>>],
     [ai |-> [openai_key |-> "sk-file"],
      maximo |-> [apiKey |-> "mx-file", baseUrl |-> "https://mx.example"],
      tenants |-> <<TenantOf([id |-> <<"default">>, site |-> <<"bedford">>])>>] >>

\* the payloads of POST /api/settings
SavePayloads ==
  << \* what the UI sends
     [mcp |-> [url |-> <<"http://broker:8081">>, enableTools |-> TRUE],
      maximo |-> [objectStructure |-> "mxapiasset"],
      kind |-> "obj",
      ui |-> <<>>],
     [maximo |-> [apiKey |-> "mx-payload", baseUrl |-> "https://mx2.example"], kind |-> "obj"],
     [ai |-> [openai_key |-> "sk-payload", mistral_key |-> "mk-payload"],
      maximo |-> [apiKey |-> "mx-other"],
      kind |-> "obj"],
     [kind |-> "obj",
      tenants |-> << [id |-> <<" ", "north", " ">>,
                      site |-> <<"bedford">>,
                      apiKey |-> "tn-payload"],
                     [label |-> <<"no id">>, apiKey |-> "tn-other"] >>,
      ui |-> [theme |-> "dark"]],
     [kind |-> "obj", tenants |-> <<>>],
     [kind |-> "obj", apiKey |-> "top-payload"],
     [maximo |-> [apiKey |-> "mx-lost"], kind |-> "obj", tenants |-> <<[nul |-> TRUE]>>],
     [kind |-> "str"],
     \* not from the UI: the same id twice
     [kind |-> "obj",
      tenants |-> << [id |-> <<"south">>, site |-> <<"bedford">>],
                     [id |-> <<"east">>],
                     [id |-> <<" ", "south">>, label |-> <<"again">>] >>] >>

\* the credentials a payload carries
CredentialFields == {"openai_key", "mistral_key", "deepseek_key", "apiKey"}
CredentialsOf(obj) == {obj[f] : f \in (DOMAIN obj) \cap CredentialFields}
CredentialsIn(payload) ==
  CredentialsOf(payload)
  \cup CredentialsOf(SectionOr(payload, "maximo"))
  \cup CredentialsOf(SectionOr(payload, "ai"))
  \cup UNION {CredentialsOf(SectionOr(payload, "tenants")[i])
              : i \in DOMAIN SectionOr(payload, "tenants")}

SaveInit ==
  /\ \E i \in DOMAIN SavedStores : store = SavedStores[i]
  /\ env = CHOOSE e \in EnvCases : e.OPENAI_API_KEY = "" /\ e.MISTRAL_API_KEY = ""
  /\ ChatIdle
  /\ OutsideIdle

\* POST /api/settings with a body that does not parse or parses to null, or
\* with a payload saveSettingsFromUI throws on: 500, nothing is written
SaveRejected(body) ==
  /\ \/ body.kind \in {"null", "junk"}
     \/ body.kind = "obj" /\ SaveThrows(body)
  /\ supplied' = IF body.kind = "obj" THEN supplied \cup CredentialsIn(body) ELSE supplied
  /\ sres' = server_error(IF body.kind = "junk" THEN [msg |-> "Unexpected token"]
                          ELSE [msg |-> "Cannot read properties of null"])
  /\ UNCHANGED <<env, store, chatVars, parked, normVars, orderVars, brokerVars>>

\* POST /api/settings: the file is rewritten
SaveSettings(payload) ==
  /\ payload.kind \notin {"null", "junk"}
  /\ ~SaveThrows(payload)
  /\ store' = saveSettingsFromUI(store, payload)
  /\ supplied' = IF payload.kind = "obj" THEN supplied \cup CredentialsIn(payload)
                 ELSE supplied
  /\ sres' = json(200, [okField |-> TRUE, settings |-> saveSettingsFromUI(store, payload)])
  /\ UNCHANGED <<env, chatVars, parked, normVars, orderVars, brokerVars>>

SaveNext ==
  \/ \E k \in {"null", "junk"} : SaveRejected([kind |-> k])
  \/ \E i \in DOMAIN SavePayloads : SaveRejected(SavePayloads[i])
  \/ \E i \in DOMAIN SavePayloads : SaveSettings(SavePayloads[i])

SaveSpec == SaveInit /\ [][SaveNext]_vars

(* ================== POST /api/settings/load and the save ============== *)
\* POST /api/settings/load: the effective settings are sent back
LoadSettings ==
  /\ sres' = json(200, [settings |-> effectiveSettings(store, env)])
  /\ UNCHANGED <<env, store, chatVars, parked, supplied, normVars, orderVars, brokerVars>>

SettingsNext ==
  \/ LoadSettings
  \/ \E i \in DOMAIN SavePayloads : SaveRejected(SavePayloads[i])
  \/ \E i \in DOMAIN SavePayloads : SaveSettings(SavePayloads[i])

SettingsSpec == Init /\ [][SettingsNext]_vars

(* ============================ the MCP broker ========================== *)
\* In the broker, env is its own process.env and store the settings file as
\* loadSettings reads it.  Base URLs and sites are kept in chunks ("/" and
\* "maximo" are chunks of their own); a tenant id of a request is one word.

\* normMaximoBase: trimmed, one trailing slash dropped, "/maximo" appended
\* unless the string ends with it
EndsWithMaximo(u) ==
  Len(u) >= 2 /\ u[Len(u) - 1] = "/" /\ u[Len(u)] = "maximo"
\* mutant: the path segment is appended whatever the string ends with
normMaximoBase_AlwaysAppend(u) ==
  LET b == StripSlash(Trim(u))
  IN IF b = <<>> THEN <<>> ELSE b \o <<"/", "maximo">>

normMaximoBase(u) ==
  LET b == StripSlash(Trim(u))
  IN IF b = <<>> THEN <<>>
     ELSE IF EndsWithMaximo(b) THEN b
     ELSE b \o <<"/", "maximo">>
\* maximoApiBase: b.replace(/\/maximo$/, "/maximo/api") of the normalized base
maximoApiBase(u) ==
  LET b == normMaximoBase(u)
  IN IF b = <<>> THEN <<>>
     ELSE IF EndsWithMaximo(b)
     THEN SubSeq(b, 1, Len(b) - 2) \o <<"/", "maximo", "/", "api">>
     ELSE b

\* String.prototype.toUpperCase on the sites that occur
ToUpperCase(u) ==
  [i \in DOMAIN u |-> CASE u[i] = "bedford" -> "BEDFORD"
                         [] u[i] = "envsite" -> "ENVSITE"
                         [] u[i] = "main"    -> "MAIN"
                         [] OTHER            -> u[i]]

\* a || b for strings in chunks, and for plain strings
OrElse(a, b) == IF a # <<>> THEN a ELSE b
OrElseStr(a, b) == IF a # "" THEN a ELSE b
\* obj?.f, <<>> or "" when obj has no such field
ChunksOf(obj, f) == IF Has(obj, f) THEN obj[f] ELSE <<>>
StrOf(obj, f) == IF Has(obj, f) THEN obj[f] ELSE ""

\* tenants.find(x => String(x.id) === id): the places where it may stop
Hits(tenants, id) == {i \in DOMAIN tenants : ChunksOf(tenants[i], "id") = <<id>>}
FirstOf(S) == CHOOSE i \in S : \A j \in S : i <= j

\* mutant: an unknown id does not fall back to the entry "default"
MatchedTenant_NoDefault(tenants, id) ==
  IF Hits(tenants, id) # {} THEN tenants[FirstOf(Hits(tenants, id))] ELSE <<>>

\* tenants.find(id) || tenants.find("default") || {}
MatchedTenant(tenants, id) ==
  IF Hits(tenants, id) # {} THEN tenants[FirstOf(Hits(tenants, id))]
  ELSE IF Hits(tenants, "default") # {} THEN tenants[FirstOf(Hits(tenants, "default"))]
  ELSE <<>>

\* mutant: the persisted credential wins over the environment
apiKeyOf_SettingsFirst(s, e) ==
  OrElseStr(StrOf(SectionOr(s, "maximo"), "apiKey"), e.MAXIMO_APIKEY)

\* const apiKey = process.env.MAXIMO_APIKEY || settings.maximo?.apiKey || ""
apiKeyOf(s, e) ==
  OrElseStr(e.MAXIMO_APIKEY, StrOf(SectionOr(s, "maximo"), "apiKey"))

\* resolveTenant(settings, tenantId); tenantId "" is an absent field
resolveTenant(s, tenantId, e) ==
  LET tenants == ChunksOf(s, "tenants")
      mx      == SectionOr(s, "maximo")
      def     == OrElseStr(StrOf(mx, "defaultTenant"), "default")
      id      == OrElseStr(tenantId, def)
      t       == MatchedTenant(tenants, id)
      baseUrl == OrElse(ChunksOf(t, "maximoBaseUrl"),
                        OrElse(ChunksOf(mx, "baseUrl"), e.MAXIMO_URL))
      site    == OrElse(ChunksOf(t, "site"),
                        OrElse(ChunksOf(mx, "defaultSite"), e.DEFAULT_SITEID))
  IN [id |-> id,
      org |-> ChunksOf(t, "org"),
      site |-> ToUpperCase(site),
      apiKey |-> apiKeyOf(s, e),
      baseUrl |-> normMaximoBase(baseUrl),
      apiBase |-> maximoApiBase(baseUrl)]

(* ------------------------ normMaximoBase alone ------------------------ *)
BaseInit ==
  /\ rawBase \in UNION {[1..n -> {"/", "maximo", " ", "https://mx.example"}]
                        : n \in 0..MaxBaseLen}
  /\ bases = <<>>
  /\ orderBy = <<>> /\ ordered = <<>>
  /\ AgentAtRest
  /\ parked = IdleTurn /\ supplied = {} /\ sres = NoRes
  /\ list = <<>> /\ normalized = <<>>
  /\ bpc = "idle" /\ call = NoParsed /\ resolved = NoSettings /\ bnet = <<>>
  /\ bres = NoRes

\* the two helpers are called: with rawBase first, then with the base returned
NormalizeBase ==
  /\ Len(bases) < MaxApplications
  /\ LET u == IF bases = <<>> THEN rawBase ELSE bases[Len(bases)].baseUrl
     IN bases' = Append(bases, [baseUrl |-> normMaximoBase(u),
                                apiBase |-> maximoApiBase(u)])
  /\ UNCHANGED <<env, store, chatVars, parked, supplied, sres, normVars, orderBy, ordered, rawBase,
                 brokerVars>>

BaseNext == NormalizeBase

BaseSpec == BaseInit /\ [][BaseNext]_vars

(* --------------------------- POST /mcp/call --------------------------- *)
ListExcerptCap == 600
QueryExcerptCap == 800

\* process.env of the broker
BrokerEnvCases ==
  { [MAXIMO_APIKEY |-> "", MAXIMO_URL |-> <<>>, DEFAULT_SITEID |-> <<>>],
    [MAXIMO_APIKEY |-> "mx-env",
     MAXIMO_URL |-> <<"https://env.example", "/">>,
     DEFAULT_SITEID |-> <<"envsite">>],
    [MAXIMO_APIKEY |-> "",
     MAXIMO_URL |-> <<"https://env.example", "/", "maximo">>,
     DEFAULT_SITEID |-> <<>>] }

\* a record of the tenant registry as it stands in the file
NorthTenant ==
  [id |-> <<"north">>,
   maximoBaseUrl |-> <<"https://north.example">>,
   org |-> <<"eagle">>,
   site |-> <<"bedford">>,
   apiKey |-> "tn-key"]
DefaultTenant ==
  [id |-> <<"default">>,
   maximoBaseUrl |-> <<" ", "https://default.example", "/", "maximo", "/">>,
   org |-> <<"main">>,
   site |-> <<>>]

\* SETTINGS_FILE as the broker finds it
BrokerStores ==
  << [maximo |-> <<>>, tenants |-> <<>>],
     [maximo |-> [defaultTenant |-> "north",
                  apiKey |-> "mx-file",
                  baseUrl |-> <<"https://mx.example">>,
                  defaultSite |-> <<"main">>],
      tenants |-> <<NorthTenant>>],
     [maximo |-> [apiKey |-> "mx-file"], tenants |-> <<NorthTenant, DefaultTenant>>],
     [maximo |-> <<>>, tenants |-> <<NorthTenant>>] >>

\* bodies of POST /mcp/call
CallNames ==
  << <<>>, <<" ">>, <<"maximo.listOS">>, <<" ", "maximo.listOS", " ">>,
     <<"maximo.queryOS">>, <<"maximo.deleteOS">> >>
CallTenants == <<"", "north", "ghost">>
CallArgs ==
  << <<>>,
     [os |-> <<"mxapiasset", " ">>],
     [os |-> <<"mxapiwo">>,
      params |-> ("k" :> "obj") @@ ("oslc.where" :> <<"status=\"APPR\"">>)
                 @@ ("oslc.orderBy" :> <<"changedate", " ", "desc">>)],
     [os |-> <<" ">>, params |-> [k |-> "str"]] >>
CallBody(n, tn, a) == [name |-> n, tenant |-> tn, kind |-> "obj", args |-> a]

\* what the backend can answer
BackendResponses ==
  << Response(TRUE, 200, [t |-> "obj", member |-> "rows"], 900),
     Response(FALSE, 401, [t |-> "obj", error |-> "unauthorized"], 700),
     Response(TRUE, 200, NotJson, 1000),
     Response(FALSE, 500, NotJson, 40) >>

mcp_error(detail) == json(500, [error |-> "mcp_error", detail |-> detail])

\* mutant: a name that is no tool is served like maximo.listOS
Dispatch_ListByDefault(name) ==
  IF name = <<"maximo.queryOS">> THEN "queryOS" ELSE "listOS"

\* the branch of the handler the tool name selects
Dispatch(name) ==
  CASE name = <<"maximo.listOS">>  -> "listOS"
    [] name = <<"maximo.queryOS">> -> "queryOS"
    [] OTHER                       -> "unknown"

\* the URLSearchParams of maximo.queryOS: only the non-empty ones are set
QueryParams(paramsIn, tn) ==
  LET given(f) == Trim(ChunksOf(paramsIn, f))
      where    == OrElse(given("oslc.where"),
                         IF tn.site # <<>> THEN <<"siteid=">> \o tn.site ELSE <<>>)
      all      == ("oslc.where" :> where) @@ ("oslc.select" :> given("oslc.select"))
                  @@ ("oslc.orderBy" :> given("oslc.orderBy"))
                  @@ ("oslc.pageSize" :> given("oslc.pageSize"))
  IN [f \in {g \in DOMAIN all : all[g] # <<>>} |-> all[f]]

\* the GET the broker sends to the backend
BackendRequest(tn, os, query) ==
  [url |-> [os |-> os, apiBase |-> tn.apiBase, query |-> query],
   ev |-> "req",
   headers |-> [apikey |-> tn.apiKey]]

\* mutant: the trace copies the headers that were sent
TraceOf_SentHeaders(req) ==
  [request |-> [url |-> req.url, headers |-> req.headers, method |-> "GET"]]

\* trace: { request: { method: "GET", url, headers: { apikey: "***" } } }
TraceOf(req) ==
  [request |-> [url |-> req.url, headers |-> [apikey |-> "***"], method |-> "GET"]]

BrokerInit ==
  /\ env \in BrokerEnvCases
  /\ \E i \in DOMAIN BrokerStores : store = BrokerStores[i]
  /\ ChatIdle
  /\ OutsideIdle

\* the handler answers r
Answer(r) ==
  /\ bpc' = "done"
  /\ bres' = r

\* a body that does not parse, or parses to null: the catch answers 500
CallRejected(body) ==
  /\ bpc = "idle"
  /\ body.kind \in {"null", "junk"}
  /\ call' = body
  /\ Answer(mcp_error(IF body.kind = "junk" THEN [msg |-> "Unexpected token"]
                      ELSE [msg |-> "Cannot read properties of null"]))
  /\ UNCHANGED <<env, store, chatVars, parked, supplied, sres, normVars, orderVars, resolved, bnet>>

\* lines 516-552 up to the answer or to the await of the backend
McpCall(body) ==
  /\ bpc = "idle"
  /\ body.kind = "obj"
  /\ call' = body
  /\ LET name     == Trim(ChunksOf(body, "name"))
         args     == SectionOr(body, "args")
         tn       == resolveTenant(store, StrOf(body, "tenant"), env)
         os       == Trim(ChunksOf(args, "os"))
         paramsIn == IF Has(args, "params") /\ args.params["k"] = "obj"
                     THEN args.params ELSE <<>>
         send(req) == /\ bnet' = <<req>>
                      /\ bpc' = "awaitBackend"
                      /\ bres' = NoRes
     IN /\ resolved' = tn
        /\ IF name = <<>>
           THEN Answer(json(400, [error |-> "missing_tool_name"])) /\ bnet' = <<>>
           ELSE IF tn.apiBase = <<>> \/ tn.apiKey = ""
           THEN /\ Answer(json(400, [error |-> "missing_maximo_config",
                                     detail |-> [msg |-> "MAXIMO_URL and MAXIMO_APIKEY must be provided"]]))
                /\ bnet' = <<>>
           ELSE IF Dispatch(name) = "listOS"
           THEN send(BackendRequest(tn, <<>>, <<>>))
           ELSE IF Dispatch(name) = "queryOS"
           THEN IF os = <<>>
                THEN Answer(json(400, [error |-> "missing_os"])) /\ bnet' = <<>>
                ELSE send(BackendRequest(tn, os, QueryParams(paramsIn, tn)))
           ELSE /\ Answer(json(404, [name |-> name, error |-> "unknown_tool"]))
                /\ bnet' = <<>>
  /\ UNCHANGED <<env, store, chatVars, parked, supplied, sres, normVars, orderVars>>

\* the fetch of the backend rejects: the catch answers 500
BackendFetchFails ==
  /\ bpc = "awaitBackend"
  /\ bnet' = Append(bnet, [ev |-> "fail"])
  /\ Answer(mcp_error(FetchFailed))
  /\ UNCHANGED <<env, store, chatVars, parked, supplied, sres, normVars, orderVars, call, resolved>>

\* lines 531-532 and 553-555: the backend's answer r arrives
RecvBackend(r) ==
  /\ bpc = "awaitBackend"
  /\ LET br   == fetchJson(r)
         req  == bnet[1]
         list_ == Dispatch(Trim(ChunksOf(call, "name"))) = "listOS"
     IN IF ~br.ok \/ ~Truthy(br.json)
        THEN Answer(json(br.status,
                         [url |-> req.url,
                          error |-> "maximo_failed",
                          detail |-> Slice(br.text, IF list_ THEN ListExcerptCap
                                                    ELSE QueryExcerptCap)]))
        ELSE IF list_
        THEN Answer(json(200, [okField |-> TRUE, tenant |-> resolved.id, list |-> br.json]))
        ELSE Answer(json(200, [os |-> req.url.os,
                               okField |-> TRUE,
                               tenant |-> resolved.id,
                               data |-> br.json,
                               trace |-> TraceOf(req)]))
  /\ bnet' = Append(bnet, [ev |-> "resp", resp |-> r])
  /\ UNCHANGED <<env, store, chatVars, parked, supplied, sres, normVars, orderVars, call, resolved>>

\* the response has been written: the handler of the broker returns
CallReturns ==
  /\ bpc = "done"
  /\ bpc' = "idle" /\ call' = NoParsed /\ resolved' = NoSettings /\ bnet' = <<>>
  /\ bres' = NoRes

\* the broker waits for the next request
EndCall ==
  /\ CallReturns
  /\ UNCHANGED <<env, store, chatVars, parked, supplied, sres, normVars, orderVars>>

BrokerNext ==
  \/ \E k \in {"null", "junk"} : CallRejected([kind |-> k])
  \/ \E n \in DOMAIN CallNames, tn \in DOMAIN CallTenants, a \in DOMAIN CallArgs :
       McpCall(CallBody(CallNames[n], CallTenants[tn], CallArgs[a]))
  \/ BackendFetchFails
  \/ \E i \in DOMAIN BackendResponses : RecvBackend(BackendResponses[i])
  \/ EndCall

BrokerSpec == BrokerInit /\ [][BrokerNext]_vars

(* ======================== chat turns that overlap ===================== *)
\* Two requests to POST /api/agent/chat are in progress at once.  One handler
\* runs until its next await; the locals of the other are kept in parked.
\* The steps of a turn are those of Spec, taken by whichever handler runs.

\* the locals of the handler that runs
Running ==
  [enableTools |-> enableTools,
   tools |-> tools,
   pc |-> pc,
   parsed |-> parsed,
   settings |-> settings,
   cfg |-> cfg,
   mcpUrl |-> mcpUrl,
   tenant |-> tenant,
   messages |-> messages,
   toolCalls |-> toolCalls,
   follow |-> follow,
   idx |-> idx,
   net |-> net,
   res |-> res,
   raw |-> raw]

\* the settings file before and after the provider key in it is replaced
ConcStores ==
  { [ai |-> [openai_key |-> "sk-file", mistral_key |-> "", deepseek_key |-> "dk-file"],
     mcp |-> [url |-> <<"http://broker:8081", "/">>, enableTools |-> TRUE],
     maximo |-> [defaultTenant |-> "north"]],
    [ai |-> [openai_key |-> "sk-rotated", mistral_key |-> "", deepseek_key |-> "dk-file"],
     mcp |-> [url |-> <<"http://broker:8081", "/">>, enableTools |-> TRUE],
     maximo |-> [defaultTenant |-> "north"]] }

\* the environment leaves the provider key to the file, or sets it itself
ConcInit ==
  /\ env \in {e \in EnvCases : e.MISTRAL_API_KEY = ""}
  /\ store \in ConcStores
  /\ ChatIdle
  /\ OutsideIdle

\* mutant: the provider configuration is kept in one place for all handlers
Switch_SharedCfg ==
  /\ pc \in {"idle", "awaitCatalog", "awaitFirst", "awaitFollowup", "awaitInvoke"}
  /\ parked # Running
  /\ parked' = Running
  /\ pc' = parked.pc
  /\ parsed' = parked.parsed
  /\ settings' = parked.settings
  /\ cfg' = cfg
  /\ mcpUrl' = parked.mcpUrl
  /\ tenant' = parked.tenant
  /\ enableTools' = parked.enableTools
  /\ messages' = parked.messages
  /\ tools' = parked.tools
  /\ toolCalls' = parked.toolCalls
  /\ follow' = parked.follow
  /\ idx' = parked.idx
  /\ net' = parked.net
  /\ res' = parked.res
  /\ raw' = parked.raw
  /\ UNCHANGED <<env, store, supplied, sres, normVars, orderVars, brokerVars>>

\* the handler that runs reaches an await (or no handler runs) and the event
\* loop goes on with the other one, whose locals are its own
Switch ==
  /\ pc \in {"idle", "awaitCatalog", "awaitFirst", "awaitFollowup", "awaitInvoke"}
  /\ parked # Running
  /\ parked' = Running
  /\ pc' = parked.pc
  /\ parsed' = parked.parsed
  /\ settings' = parked.settings
  /\ cfg' = parked.cfg
  /\ mcpUrl' = parked.mcpUrl
  /\ tenant' = parked.tenant
  /\ enableTools' = parked.enableTools
  /\ messages' = parked.messages
  /\ tools' = parked.tools
  /\ toolCalls' = parked.toolCalls
  /\ follow' = parked.follow
  /\ idx' = parked.idx
  /\ net' = parked.net
  /\ res' = parked.res
  /\ raw' = parked.raw
  /\ UNCHANGED <<env, store, supplied, sres, normVars, orderVars, brokerVars>>

\* SETTINGS_FILE is rewritten while turns are in progress
StoreChanged(s) ==
  /\ s # store
  /\ store' = s
  /\ UNCHANGED <<env, chatVars, outside>>

ConcNext ==
  \/ TurnRejected([kind |-> "junk"])
  \/ \E p \in {1, 4}, t \in {2, 3} :
       StartTurn(ChatBody(ChatProviders[p], ChatTexts[t], ChatSystems[1]))
  \/ \E i \in {1, 8} : RecvCatalog(CatalogResponses[i])
  \/ CompletionFetchFails
  \/ \E i \in {2, 6} : RecvFirst(PlainResponses[i])
  \/ RecvFirst(ToolCallResponse(<<2>>))
  \/ \E i \in {1, 3} : RecvInvoke(InvokeResponses[i])
  \/ RecvFollowup(PlainResponses[6])
  \/ EndTurn
  \/ Switch
  \/ \E s \in ConcStores : StoreChanged(s)

ConcSpec == ConcInit /\ [][ConcNext]_vars

(* ================ a chat turn, the broker and the save ================ *)
\* The agent and the broker run side by side on one settings file (both take
\* SETTINGS_FILE from the same mounted directory); env holds the variables of
\* both processes.  The invokes of the turn are served by the handler of
\* POST /mcp/call, and POST /api/settings may be served at any moment.
JointInit ==
  /\ env = Merge(CHOOSE e \in EnvCases : e.OPENAI_API_KEY = "" /\ e.MISTRAL_API_KEY = "",
                 CHOOSE e \in BrokerEnvCases : e.MAXIMO_APIKEY # "")
  /\ store = [ai |-> [openai_key |-> "sk-file", mistral_key |-> "", deepseek_key |-> ""],
              mcp |-> [url |-> <<"http://broker:8081">>, enableTools |-> TRUE],
              maximo |-> [defaultTenant |-> "north"],
              tenants |-> <<NorthTenant>>]
  /\ ChatIdle
  /\ OutsideIdle

\* the body of POST /mcp/call as the broker parses it from the agent's request
BodyOf(req) ==
  CallBody(req.name, req.tenant,
           IF Has(req.args, "os") THEN [os |-> <<req.args.os>>] ELSE <<>>)

\* the broker's response as the agent's fetch returns it, marked with the
\* tenant configuration the broker had resolved for it
AsResponse(b, tn) ==
  Merge(Response(b.status \in 200..299, b.status, b.body, 200), [served |-> tn])

\* the broker takes the invoke request the turn is waiting on
ServeInvoke ==
  /\ pc = "awaitInvoke"
  /\ McpCall(BodyOf(net[Len(net)]))

\* the broker's response reaches the agent, whose handler goes on
Deliver ==
  /\ bpc = "done"
  /\ InvokeAnswered(AsResponse(bres, resolved))
  /\ CallReturns
  /\ UNCHANGED <<env, store, parked, supplied, sres, normVars, orderVars>>

JointNext ==
  \/ StartTurn(ChatBody(ChatProviders[1], ChatTexts[3], ChatSystems[1]))
  \/ RecvCatalog(CatalogResponses[1])
  \/ \E f \in UNION {[1..n -> {1, 2}] : n \in 1..MaxToolCalls} :
       RecvFirst(ToolCallResponse(f))
  \/ ServeInvoke
  \/ \E i \in {1, 2} : RecvBackend(BackendResponses[i])
  \/ Deliver
  \/ RecvFollowup(PlainResponses[6])
  \/ EndTurn
  \/ \E i \in {1, 4} : SaveSettings(SavePayloads[i])

JointSpec == JointInit /\ [][JointNext]_vars

C14_OrderByTotalIdempotent ==
  /\ ordered # <<>> =>
       /\ ordered[1] = <<>> \/ ordered[1][1] \in {"-", "+"}
       /\ (ordered[1] = <<>>) = (Trim(orderBy) = <<>>)
       /\ orderBy # <<>> /\ orderBy[1] \in {"-", "+"} => ordered[1] = TrimRight(orderBy)
       /\ \A w \in {c \in OrderByChunks : IsWordChunk(c)} :
            /\ orderBy = <<w>> => ordered[1] = <<"+", w>>
            /\ \A d \in {"DESC", "desc", "Desc"} :
                 orderBy = <<w, " ", d>> => ordered[1] = <<"-", w>>
            /\ \A d \in {"asc"} :
                 orderBy = <<w, " ", d>> => ordered[1] = <<"+", w>>
  /\ Len(ordered) >= 2 => ordered[2] = ordered[1]

\* "changedate DESC" has been converted, and its result converted again
C14_Witness ==
  /\ orderBy = <<"changedate", " ", "DESC">>
  /\ Len(ordered) = 2
  /\ ordered[2] = <<"-", "changedate">>

(* ------------------------ the claims of the broker -------------------- *)
\* a call with a decoded body is being served, or has been answered
Serving == bpc # "idle" /\ call.kind = "obj"
Registry == ChunksOf(store, "tenants")
GlobalMaximo == SectionOr(store, "maximo")
\* the id the request asks for: its own, else the default of the settings
AskedId ==
  OrElseStr(StrOf(call, "tenant"), OrElseStr(StrOf(GlobalMaximo, "defaultTenant"), "default"))
NoMatch == Hits(Registry, AskedId) = {} /\ Hits(Registry, "default") = {}
\* the handler's catch has answered without a fetch having failed
Raised ==
  /\ bres # NoRes
  /\ Has(bres.body, "error")
  /\ bres.body.error = "mcp_error"
  /\ \A j \in DOMAIN bnet : bnet[j].ev # "fail"

\* C15 as stated: an unknown tenant id and no "default" entry give an empty
\* resolved tenant whatever the settings and the environment hold.
C15_UnknownTenantEmpty ==
  Serving /\ NoMatch =>
    /\ ~Raised
    /\ resolved.baseUrl = <<>> /\ resolved.apiBase = <<>> /\ resolved.site = <<>>

\* C15, amended: the record is the first exact match, else the first entry
\* "default", else an empty record; with neither, no exception is raised,
\* the organization is empty, and base URL, apiBase and site are those of
\* the global settings, then of the environment (empty when both are).
C15_TenantResolutionOrder ==
  Serving =>
    LET exact == Hits(Registry, AskedId)
        dflt  == Hits(Registry, "default")
        base  == OrElse(ChunksOf(GlobalMaximo, "baseUrl"), env.MAXIMO_URL)
        site  == OrElse(ChunksOf(GlobalMaximo, "defaultSite"), env.DEFAULT_SITEID)
    IN /\ ~Raised
       /\ resolved.id = AskedId
       /\ exact # {} => resolved.org = Registry[FirstOf(exact)].org
       /\ exact = {} /\ dflt # {} =>
            /\ resolved.org = Registry[FirstOf(dflt)].org
            /\ resolved.baseUrl = normMaximoBase(Registry[FirstOf(dflt)].maximoBaseUrl)
       /\ exact = {} /\ dflt = {} =>
            /\ resolved.org = <<>>
            /\ resolved.baseUrl = normMaximoBase(base)
            /\ resolved.apiBase = maximoApiBase(base)
            /\ resolved.site = ToUpperCase(site)
            /\ base = <<>> => resolved.baseUrl = <<>> /\ resolved.apiBase = <<>>
            /\ site = <<>> => resolved.site = <<>>

\* an unknown id with no "default" entry resolves to the URL of the environment
C15_Witness ==
  /\ Serving /\ NoMatch
  /\ call.tenant = "ghost"
  /\ resolved.baseUrl = <<"https://env.example", "/", "maximo">>
  /\ resolved.org = <<>>

\* C16 as stated: environment, else settings, else the credential carried on
\* the matched tenant record.
C16_TenantRecordCredentialLast ==
  Serving =>
    resolved.apiKey =
      OrElseStr(env.MAXIMO_APIKEY,
                OrElseStr(StrOf(GlobalMaximo, "apiKey"),
                          StrOf(MatchedTenant(Registry, AskedId), "apiKey")))

\* C16, amended: the credential is that of the environment if non-empty,
\* else the one persisted in the settings, else empty; a credential carried
\* on the tenant record is never used.
C16_CredentialPrecedence ==
  Serving =>
    /\ env.MAXIMO_APIKEY # "" => resolved.apiKey = env.MAXIMO_APIKEY
    /\ env.MAXIMO_APIKEY = "" /\ StrOf(GlobalMaximo, "apiKey") # "" =>
         resolved.apiKey = GlobalMaximo.apiKey
    /\ env.MAXIMO_APIKEY = "" /\ StrOf(GlobalMaximo, "apiKey") = "" =>
         resolved.apiKey = ""

\* no credential in the environment, one in the settings, one on the record
C16_Witness ==
  /\ Serving
  /\ env.MAXIMO_APIKEY = ""
  /\ StrOf(MatchedTenant(Registry, AskedId), "apiKey") = "tn-key"
  /\ resolved.apiKey = "mx-file"

\* the request names a tool, and it is neither of the two implemented ones
UnknownToolAsked ==
  /\ Serving
  /\ Trim(ChunksOf(call, "name")) \notin {<<>>, <<"maximo.listOS">>, <<"maximo.queryOS">>}

\* C17 as stated: such a request gets the "unknown tool" result for every
\* tenant and every state of the backend configuration, with no backend request.
C17_UnknownToolAlways ==
  UnknownToolAsked =>
    /\ bnet = <<>>
    /\ bres.status = 404 /\ bres.body.error = "unknown_tool"

\* C17, amended: such a request issues no backend request; it gets the
\* "unknown tool" result when the resolved tenant has an apiBase and a
\* credential, and the missing-configuration error when it has not.
C17_UnknownToolAfterConfig ==
  UnknownToolAsked =>
    /\ bnet = <<>>
    /\ bpc = "done"
    /\ IF resolved.apiBase # <<>> /\ resolved.apiKey # ""
       THEN /\ bres.status = 404 /\ bres.body.error = "unknown_tool"
            /\ bres.body.name = Trim(call.name)
       ELSE bres.status = 400 /\ bres.body.error = "missing_maximo_config"

C17_Witness ==
  /\ UnknownToolAsked
  /\ bres.status = 404
  /\ resolved.apiKey = "mx-env"

\* the credential occurs in the URL u
InUrl(u, key) ==
  \/ \E i \in DOMAIN u.apiBase : u.apiBase[i] = key
  \/ \E i \in DOMAIN u.os : u.os[i] = key
  \/ \E f \in DOMAIN u.query : \E i \in DOMAIN u.query[f] : u.query[f][i] = key
\* the credential occurs in the response body
Mentions(body, key) ==
  \/ \E f \in (DOMAIN body) \cap {"error", "tenant"} : body[f] = key
  \/ Has(body, "url") /\ InUrl(body.url, key)
  \/ /\ Has(body, "trace")
     /\ \/ body.trace.request.headers.apikey = key
        \/ InUrl(body.trace.request.url, key)

\* C18: no response of POST /mcp/call contains the backend credential: the
\* trace carries the mask, and the credential is sent to the backend only.
C18_CredentialMasked ==
  Serving /\ resolved.apiKey # "" =>
    /\ \A j \in DOMAIN bnet : bnet[j].ev = "req" => bnet[j].headers.apikey = resolved.apiKey
    /\ bres # NoRes =>
         /\ ~Mentions(bres.body, resolved.apiKey)
         /\ Has(bres.body, "trace") => bres.body.trace.request.headers.apikey = "***"

\* a query has been answered with its trace
C18_Witness ==
  /\ Serving
  /\ bres.status = 200
  /\ Has(bres.body, "trace")
  /\ resolved.apiKey = "mx-env"
  /\ bnet[1].headers.apikey = "mx-env"

(* ------------------------- the normalizer's claims -------------------- *)
\* the first result of toOpenAITools
Normalized1 == normalized[1]

\* C12: the normalizer is idempotent: applied to its own output, for any
\* input (canonical, broker-native or malformed), it returns that output.
\* The code does not satisfy it: a function.name that is truthy and whose
\* string is empty is emitted with an empty name, and dropped the second time.
C12_NormalizerIdempotent ==
  Len(normalized) >= 2 => normalized[2] = normalized[1]

WellFormedSchema(v) == v.k = "obj" /\ Has(v, "type") /\ v.type = "object"

\* C13: every emitted tool has a well-formed, non-empty object schema as its
\* parameters, whatever the schema field of the record was.  The code does
\* not satisfy it: an empty object and an array are passed through.
C13_ParametersWellFormed ==
  normalized # <<>> =>
    \A j \in DOMAIN Normalized1 : WellFormedSchema(Normalized1[j].function.parameters)

\* the names a record offers, as strings
NamesOf(t) ==
  IF Has(t, "nul") THEN {}
  ELSE (IF Has(t, "type") /\ t.type = "function" /\ Has(t, "function")
           /\ Has(t.function, "name")
        THEN {String(t.function.name)} ELSE {})
       \cup (IF Has(t, "name") THEN {Trim(String(t.name))} ELSE {})
HasUsableName(t) == NamesOf(t) \ {<<>>} # {}
Kept == {i \in DOMAIN list : HasUsableName(list[i])}
NthKept(j) == CHOOSE i \in Kept : Cardinality({k \in Kept : k <= i}) = j

\* C20: the normalizer only filters: one canonical tool with a non-empty name
\* per record that has a usable name, in the order of the input, and nothing
\* for the other records.  The code does not satisfy it (the empty name of C12).
C20_OnlyFilters ==
  normalized # <<>> =>
    /\ Len(Normalized1) = Cardinality(Kept)
    /\ \A j \in DOMAIN Normalized1 :
         /\ Normalized1[j].type = "function"
         /\ Normalized1[j].function.name # <<>>
         /\ Normalized1[j].function.name \in NamesOf(list[NthKept(j)])

(* ---------------------- the claim of overlapping turns ---------------- *)
IsAnswer(e) == e.ev # "req"
IsRequest(e) == e.ev = "req"
\* what a turn received from outside, and what it sent, in order
Received(t) == SelectSeq(t.net, IsAnswer)
Sent(t) == SelectSeq(t.net, IsRequest)

\* two turns with the same request, the same settings file read at their
\* start and the same answers so far have made the same calls, carry the same
\* messages and have written the same response
SameInputsSameOutputs(a, b) ==
  (a.parsed = b.parsed /\ a.raw = b.raw /\ Received(a) = Received(b))
    => /\ Sent(a) = Sent(b)
       /\ a.messages = b.messages
       /\ a.follow = b.follow
       /\ a.res = b.res

\* a turn works with the settings file as read at its start under the
\* environment, and every completion request carries the key from there
UsesItsOwnSettings(t) ==
  t.parsed.kind = "obj" =>
    /\ t.settings = effectiveSettings(t.raw, env)
    /\ t.cfg = providerConfig(t.parsed.provider, t.settings)
    /\ \A j \in DOMAIN t.net :
         IsCompletionReq(t.net[j]) => t.net[j].authorization = t.cfg.key

\* a handler is entered: the settings file is read then
ReadsAfresh ==
  (pc = "idle" /\ parked' = parked /\ parsed'.kind = "obj") => raw' = store

\* C19: under any interleaving of two chat turns and changes of the settings
\* file, the calls a turn makes, the messages it sends and its reply depend
\* only on its request, the settings and environment read at its start and
\* the answers to its own calls; the settings are read at the start of every
\* turn, so a turn started after the key was replaced uses the new key.
C19_TurnsIndependent ==
  /\ [](/\ SameInputsSameOutputs(Running, parked)
        /\ UsesItsOwnSettings(Running)
        /\ UsesItsOwnSettings(parked))
  /\ [][ReadsAfresh]_vars

\* a turn started before the key was replaced and one started after it are
\* both waiting for their completion, each with the key it read
C19_Witness ==
  /\ pc = "awaitFirst" /\ parked.pc = "awaitFollowup"
  /\ raw.ai.openai_key = "sk-rotated" /\ parked.raw.ai.openai_key = "sk-file"
  /\ env.OPENAI_API_KEY = ""
  /\ net[Len(net)].authorization = "sk-rotated"
  /\ parked.net[Len(parked.net)].authorization = "sk-file"
(* ------------------------ the claim of normMaximoBase ----------------- *)
\* the string is trimmed and does not end with a slash
TrimmedNoSlash(b) == b[1] # " " /\ b[Len(b)] \notin {"/", " "}

\* C21: normMaximoBase returns "" for an empty or blank string; any other
\* result is trimmed, has no trailing slash and is the trimmed input without
\* its trailing slash, with "/maximo" appended once unless it ends with it;
\* normalizing the result returns it unchanged; apiBase is the normalized base
\* followed by "/api", and empty when the base is empty.
C21_BaseNormalization ==
  \A i \in DOMAIN bases :
    LET u == IF i = 1 THEN rawBase ELSE bases[i - 1].baseUrl
        t == StripSlash(Trim(u))
        b == bases[i].baseUrl
    IN /\ Trim(u) = <<>> => b = <<>>
       /\ b # <<>> =>
            /\ TrimmedNoSlash(b)
            /\ EndsWithMaximo(b)
            /\ b = IF EndsWithMaximo(t) THEN t ELSE t \o <<"/", "maximo">>
       /\ i > 1 => b = u
       /\ bases[i].apiBase = IF b = <<>> THEN <<>> ELSE b \o <<"/", "api">>

\* a base with blanks around it and a slash at its end got the segment, and
\* was normalized again
C21_Witness ==
  /\ rawBase = <<" ", "https://mx.example", "/", " ">>
  /\ Len(bases) = 2
  /\ bases[1].baseUrl = <<"https://mx.example", "/", "maximo">>
(* --------------------- the claims of the broker's query --------------- *)
\* the handler of maximo.queryOS has sent its request to the backend
QuerySent == bnet # <<>> /\ bnet[1].url.os # <<>>
\* paramsIn as the handler takes it from the call, and the override f in it
ParamsIn ==
  IF Has(SectionOr(call, "args"), "params") /\ call.args.params["k"] = "obj"
  THEN call.args.params ELSE <<>>
Override(f) == Trim(ChunksOf(ParamsIn, f))
SentQuery == bnet[1].url.query

\* C22: a maximo.queryOS call without oslc.select and oslc.pageSize sends the
\* default field list and the default page size, and one without oslc.where
\* is filtered by siteid="<site>" when the resolved tenant has a site.
C22_QueryDefaults ==
  QuerySent =>
    /\ (Override("oslc.select") = <<>> /\ Override("oslc.pageSize") = <<>>) =>
         /\ Has(SentQuery, "oslc.select")
         /\ SentQuery["oslc.select"]
              = <<"assetnum,description,siteid,location,status,assettype,changedate">>
         /\ Has(SentQuery, "oslc.pageSize")
         /\ SentQuery["oslc.pageSize"] = <<"100">>
    /\ (Override("oslc.where") = <<>> /\ resolved.site # <<>>) =>
         /\ Has(SentQuery, "oslc.where")
         /\ SentQuery["oslc.where"] = <<"siteid=">> \o resolved.site

\* C23: the oslc.orderBy of every maximo.queryOS request is what
\* normalizeOrderBy makes of the override, a token that starts with + or -,
\* and the parameter is left out when the override is empty.
C23_OrderingPrefixed ==
  QuerySent =>
    IF Override("oslc.orderBy") = <<>> THEN ~Has(SentQuery, "oslc.orderBy")
    ELSE /\ Has(SentQuery, "oslc.orderBy")
         /\ SentQuery["oslc.orderBy"][1] \in {"-", "+"}
         /\ SentQuery["oslc.orderBy"] = normalizeOrderBy(Override("oslc.orderBy"))
(* ---------------------- the claim of the tenant registry ------------- *)
SavedRegistry == ChunksOf(store, "tenants")
\* the ids of a tenants list, trimmed, the empty ones left out
NonEmpty(id) == id # <<>>
IdsOf(ts) == SelectSeq([i \in DOMAIN ts |-> TrimmedField(ts[i], "id")], NonEmpty)

\* every id of the registry is non-empty and trimmed, and no id occurs twice
RegistryWellFormed ==
  /\ \A i \in DOMAIN SavedRegistry :
       SavedRegistry[i].id # <<>> /\ Trim(SavedRegistry[i].id) = SavedRegistry[i].id
  /\ \A i, j \in DOMAIN SavedRegistry : i # j => SavedRegistry[i].id # SavedRegistry[j].id

\* a save with a tenants list stores its tenants in its order, a save without
\* one leaves the registry as it is
SaveKeepsOrder ==
  \A i \in DOMAIN SavePayloads :
    SaveSettings(SavePayloads[i]) =>
      IF Has(SavePayloads[i], "tenants")
      THEN [k \in DOMAIN ChunksOf(store', "tenants") |-> store'.tenants[k].id]
             = IdsOf(SavePayloads[i].tenants)
      ELSE ChunksOf(store', "tenants") = SavedRegistry

\* C24: after any sequence of saves every tenant of the registry has a
\* non-empty trimmed id, the ids are pairwise distinct, the registry is in the
\* order of the last tenants list saved, and a save without a tenants list
\* leaves it unchanged.
C24_RegistryWellFormed == []RegistryWellFormed /\ [][SaveKeepsOrder]_vars
(* ------------------------ the claim of termination -------------------- *)
Terminal == pc \in {"failed", "done"}
\* the response of a turn is a reply or an error with a name
TypedResponse ==
  IF res.status = 200 THEN Has(res.body, "reply") ELSE Has(res.body, "error")
\* a response is there exactly when the turn has ended, and it is typed
OneResponse == (res # NoRes) <=> Terminal
\* a response that was written stays as it is until the handler returns
WrittenOnce == res # NoRes => (res' = res \/ pc' = "idle")

\* C25: when every external call returns or fails, every turn that was
\* started reaches done or failed, with exactly one response (a reply or a
\* typed error) written then and not before; after a turn, failed or not, the
\* server is back waiting and can start the next turn.
C25_TurnTerminates ==
  /\ (pc # "idle") ~> Terminal
  /\ [](OneResponse /\ (Terminal => TypedResponse))
  /\ [][WrittenOnce]_vars
  /\ Terminal ~> (pc = "idle")
  /\ [](pc = "idle" =>
          ENABLED StartTurn(ChatBody(ChatProviders[1], ChatTexts[3], ChatSystems[1])))

\* a turn that failed after its tool calls, on the follow-up completion
C25_Witness ==
  /\ pc = "failed"
  /\ Len(toolCalls) = MaxToolCalls
  /\ res.status = 500
  /\ \E j \in DOMAIN net : IsInvokeReq(net[j])
(* ---------------------- the claim of the disabled tools --------------- *)
\* the effective settings of the turn have tool orchestration switched off
ToolsDisabled == Has(settings, "mcp") /\ ~settings.mcp.enableTools
ToBroker(e) == e.kind \in {"invoke", "catalog"}

\* C26: in a turn whose effective settings have mcp.enableTools off, nothing
\* is sent to the broker, neither GET /mcp/tools nor POST /mcp/call, whatever
\* the provider answers.
C26_DisabledToolsNoBroker ==
  ToolsDisabled => \A j \in DOMAIN net : ~ToBroker(net[j])
(* ------------------ the claim of the settings responses --------------- *)
\* the credentials the environment of the agent sets
EnvCredentials ==
  {env.OPENAI_API_KEY, env.MISTRAL_API_KEY, env.DEEPSEEK_API_KEY} \ {""}
\* the settings a response of the settings endpoints carries
SentSettings == IF Has(sres.body, "settings") THEN sres.body.settings ELSE <<>>

\* C28: no response of POST /api/settings/load and of POST /api/settings
\* contains a credential that comes from the environment.
C28_NoEnvCredentialInResponse ==
  sres # NoRes =>
    (CredentialsOf(SectionOr(SentSettings, "ai"))
       \cup CredentialsOf(SectionOr(SentSettings, "maximo"))) \cap EnvCredentials = {}
(* ----------------- the claim of the tenant of a turn ------------------ *)
\* the tenant configurations the invokes of the turn were served with
ServedWith ==
  {net[j].resp.served : j \in {k \in DOMAIN net : IsResp(net[k], "invoke")}}

\* C27: all tool calls of a turn are executed with the same backend base URL,
\* credential and site, also when a save is served between two of them.
C27_OneTenantPerTurn ==
  \A a, b \in ServedWith :
    /\ a.baseUrl = b.baseUrl
    /\ a.apiBase = b.apiBase
    /\ a.apiKey = b.apiKey
    /\ a.site = b.site
====
